---- MODULE Spec2Model ----
(***************************************************************************)
(* Mission state machine and progression ledger of Roothaktivity Mobile    *)
(* Ops: the start / submit / hint handlers of routes/missions.js over one  *)
(* persisted mission document and one player document, with the Mission    *)
(* and Player model methods they call.                                     *)
(***************************************************************************)
EXTENDS Integers, Sequences, FiniteSets, TLC

VARIABLES
    mission,    \* the persisted Mission document
    player,     \* the persisted Player document
    res,        \* the response of the last handled request
    nOps,       \* number of requests handled so far
    otherActive,\* other active missions whose metadata.creator is the player
    clock,      \* the server's time, read by `new Date()`
    reqs,       \* in-flight submit requests (concurrent specification)
    lastTimeSpent, \* body.timeSpent as the last handled request read it (0: not read)
    vulnerabilities, \* MissionGenerator.vulnerabilities, the static tables
    blueprint,  \* the mission MissionGenerator.generate last returned
    nStored,    \* number of generated missions saved to the store
    security,   \* player.security of the account that logs in
    sockets,    \* the socket objects: connection status and currentRoom
    gameRooms,  \* the gameRooms map: room id -> players map (player id -> socket)
    activeConnections \* the activeConnections map: player id -> socket

genVars == <<vulnerabilities, blueprint, nStored>>

sessionVars == <<security, sockets, gameRooms, activeConnections>>

vars == <<mission, player, res, nOps, otherActive, clock, reqs, lastTimeSpent, genVars, sessionVars>>

----------------------------------------------------------------------------
(* Bounds of the model *)

\* number of steps of the mission document
NumSteps == 2
\* number of socket connections opened in one behaviour
NumSockets == 3
\* number of room ids a join_room event can name
NumRooms == 2
\* number of requests handled in one behaviour
MaxOps == 3
\* latest time the server clock reaches
MaxTime == 2
\* number of submit requests that can be in flight together
NumReqs == 2
\* number of submit requests issued in one concurrent behaviour
MaxConcOps == 3

----------------------------------------------------------------------------
(* Program constants *)

\* process.env.MAX_MISSIONS_PER_PLAYER || 5
MaxMissionsPerPlayer == 5
\* settings.maxAttempts || 3
DefaultMaxAttempts == 3
\* skill cap of the skill nudge
SkillCap == 100
\* level-up bonus
LevelUpBonus == 5
\* Math.min(100, ...) of the skill upgrade
UpgradeCap == 100

Skills == {"cryptography", "networkAnalysis", "malwareDevelopment",
           "socialEngineering", "penetrationTesting", "forensics"}

StepTypes == {"port_scan", "vulnerability_scan", "exploit",
              "privilege_escalation", "data_extraction", "stealth_mode"}

\* absent Date / absent Number of a document
Unset == 0

Times == 1..MaxTime
StepIds == 1..NumSteps

----------------------------------------------------------------------------
(* Small helpers *)

Min(a, b) == IF a < b THEN a ELSE b
Max(a, b) == IF a > b THEN a ELSE b

RECURSIVE SumSeq(_, _)
SumSeq(f, n) == IF n = 0 THEN 0 ELSE f[n] + SumSeq(f, n - 1)

\* Math.floor(Math.sqrt(n)) for a natural n
ISqrt(n) == CHOOSE k \in 0..n : k * k <= n /\ (k + 1) * (k + 1) > n

----------------------------------------------------------------------------
(* Strings: sequences of character codes.  1..9 are lower-case letters,    *)
(* 11..19 the matching upper-case letters.                                 *)

ToLowerChar(c) == IF c > 10 THEN c - 10 ELSE c

\* a toLowerCase that keeps the case
ToLowerCase_Keep(s) == s

\* String.prototype.toLowerCase
ToLowerCase(s) == [i \in 1..Len(s) |-> ToLowerChar(s[i])]

\* String.prototype.includes
Includes(s, t) ==
    \E i \in 0..(Len(s) - Len(t)) : SubSeq(s, i + 1, i + Len(t)) = t

\* MissionGenerator.validateSolution: the set of values it can return
\* (both booleans where Math.random decides); {} where it throws.
ValidateSolution(step, submitted) ==
    LET solution == step.solution IN
    IF submitted.kind = "missing"
          \/ (submitted.kind = "string" /\ submitted.text = <<>>)
    THEN {FALSE}
    ELSE IF solution.expectedOutput # <<>> /\ submitted.kind = "string"
    THEN {Includes(ToLowerCase(submitted.text), ToLowerCase(solution.expectedOutput))}
    ELSE IF submitted.kind = "list"
    THEN {\E c \in 1..Len(solution.commands) :
            \E j \in 1..Len(submitted.items) :
                Includes(ToLowerCase(submitted.items[j]),
                         ToLowerCase(solution.commands[c]))}
    ELSE IF submitted.kind = "numbers"
    THEN IF Len(solution.commands) > 0 /\ submitted.count > 0 THEN {} ELSE {FALSE}
    ELSE BOOLEAN

----------------------------------------------------------------------------
(* Model methods *)

\* isAvailableFor without the player-capacity check
IsAvailableFor_NoCapacity(m, p, now) ==
    IF p.level < m.prerequisites.level
    THEN [available |-> FALSE, reason |-> "Insufficient level"]
    ELSE IF \E k \in 1..Len(m.prerequisites.skills) :
                p.skills[m.prerequisites.skills[k].skill]
                    < m.prerequisites.skills[k].minLevel
    THEN [available |-> FALSE, reason |-> "Insufficient skill"]
    ELSE IF m.availability.startDate # Unset /\ now < m.availability.startDate
    THEN [available |-> FALSE, reason |-> "Mission not yet available"]
    ELSE IF m.availability.endDate # Unset /\ now > m.availability.endDate
    THEN [available |-> FALSE, reason |-> "Mission has expired"]
    ELSE [available |-> TRUE, reason |-> "none"]

\* missionSchema.methods.isAvailableFor
IsAvailableFor(m, p, now) ==
    IF p.level < m.prerequisites.level
    THEN [available |-> FALSE, reason |-> "Insufficient level"]
    ELSE IF \E k \in 1..Len(m.prerequisites.skills) :
                p.skills[m.prerequisites.skills[k].skill]
                    < m.prerequisites.skills[k].minLevel
    THEN [available |-> FALSE, reason |-> "Insufficient skill"]
    ELSE IF m.availability.startDate # Unset /\ now < m.availability.startDate
    THEN [available |-> FALSE, reason |-> "Mission not yet available"]
    ELSE IF m.availability.endDate # Unset /\ now > m.availability.endDate
    THEN [available |-> FALSE, reason |-> "Mission has expired"]
    ELSE IF m.availability.maxPlayers # Unset
            /\ m.availability.currentPlayers >= m.availability.maxPlayers
    THEN [available |-> FALSE, reason |-> "Mission is full"]
    ELSE [available |-> TRUE, reason |-> "none"]

\* calculateScore without its Math.max(0, ...)
CalculateScore_NoFloor(m, completionTime, hintsUsed, attempts) ==
    LET limit == m.estimatedDuration * 60
        timed == IF completionTime * 10 < 8 * limit THEN 1200
                 ELSE IF completionTime * 10 > 15 * limit THEN 900
                 ELSE 1000
        base  == timed - hintsUsed * 50 - (attempts - 1) * 25
        tenX  == base * (10 + (m.difficulty - 1))
    IN  (2 * tenX + 10) \div 20

\* missionSchema.methods.calculateScore; Math.round is floor(x + 1/2)
CalculateScore(m, completionTime, hintsUsed, attempts) ==
    LET limit == m.estimatedDuration * 60
        timed == IF completionTime * 10 < 8 * limit THEN 1200
                 ELSE IF completionTime * 10 > 15 * limit THEN 900
                 ELSE 1000
        base  == timed - hintsUsed * 50 - (attempts - 1) * 25
        tenX  == base * (10 + (m.difficulty - 1))
    IN  Max(0, (2 * tenX + 10) \div 20)

\* playerSchema.methods.calculateLevel
CalculateLevel(p) == ISqrt(p.experience \div 100) + 1

\* skillMap of the submit handler
SkillMap(type) ==
    CASE type = "port_scan"            -> "networkAnalysis"
      [] type = "vulnerability_scan"   -> "penetrationTesting"
      [] type = "exploit"              -> "malwareDevelopment"
      [] type = "privilege_escalation" -> "penetrationTesting"
      [] type = "data_extraction"      -> "forensics"
      [] type = "stealth_mode"         -> "socialEngineering"

\* mission.save(): hackingStepSchema declares no hintsUsed path, so a value
\* assigned to it on the loaded document is not written to the store.
SaveMission(m) ==
    [m EXCEPT !.steps = [i \in 1..Len(m.steps) |->
                            [m.steps[i] EXCEPT !.hintsUsed = Unset]]]

----------------------------------------------------------------------------
(* MissionGenerator: static tables and the functions generate calls *)

\* categories that have a template
Categories == {"web_security", "network_penetration", "social_engineering",
               "malware_analysis", "forensics"}

\* MissionGenerator.templates: the step types and target types of a category
Templates(category) ==
    CASE category = "web_security" ->
           [steps   |-> <<"port_scan", "vulnerability_scan", "exploit",
                          "privilege_escalation", "data_extraction">>,
            targets |-> <<"web_server", "database">>]
      [] category = "network_penetration" ->
           [steps   |-> <<"port_scan", "vulnerability_scan", "exploit",
                          "privilege_escalation", "stealth_mode">>,
            targets |-> <<"network_device", "workstation">>]
      [] category = "social_engineering" ->
           [steps   |-> <<"vulnerability_scan", "exploit", "data_extraction",
                          "stealth_mode">>,
            targets |-> <<"workstation", "mobile_device">>]
      [] category = "malware_analysis" ->
           [steps   |-> <<"vulnerability_scan", "exploit", "data_extraction",
                          "forensics">>,
            targets |-> <<"workstation", "network_device">>]
      [] category = "forensics" ->
           [steps   |-> <<"data_extraction", "vulnerability_scan", "forensics",
                          "stealth_mode">>,
            targets |-> <<"workstation", "mobile_device">>]

\* names that `templates[category]` resolves through Object.prototype
PrototypeKeys == {"constructor"}

\* MissionGenerator.vulnerabilities as the class initialiser lays it out;
\* an entry is named by the number of its CVE id
VulnerabilityTables ==
    [web_server     |-> <<1001, 1002, 1003, 1004, 1005>>,
     database       |-> <<2001, 2002, 2003>>,
     network_device |-> <<3001, 3002, 3003>>,
     workstation    |-> <<4001, 4002, 4003>>]

\* `this.vulnerabilities[targetType] || this.vulnerabilities.web_server`
TableOf(targetType) ==
    IF targetType \in DOMAIN VulnerabilityTables THEN targetType ELSE "web_server"

Reverse(t) == [i \in 1..Len(t) |-> t[Len(t) + 1 - i]]

\* orders `sort(() => 0.5 - Math.random())` can leave an array in: the ones
\* of a comparator that answers with one sign throughout
Shuffles(t) == {t, Reverse(t)}

\* values of one Math.random() call, in hundredths
RandomDraws == {0, 99}

\* Math.floor(Math.random() * n)
RandomBelow(r, n) == (r * n) \div 100

\* generateTargets: the types of the selected template targets
GenerateTargets(templateTargets, difficulty) ==
    SubSeq(templateTargets, 1, Min(difficulty, Len(templateTargets)))

\* generateVulnerabilities on a table already sorted in place
GenerateVulnerabilities(availableVulns, difficulty) ==
    SubSeq(availableVulns, 1, Min(difficulty, Len(availableVulns)))

\* generateSteps that takes every template step
GenerateSteps_All(templateSteps, difficulty, r) ==
    [i \in 1..Len(templateSteps) |->
        [type       |-> templateSteps[i],
         difficulty |-> Min(10, Max(1, difficulty + RandomBelow(r, 3) - 1))]]

\* generateSteps: type and difficulty of each generated step
GenerateSteps(templateSteps, difficulty, r) ==
    LET numSteps == Min(difficulty + 2, Len(templateSteps))
    IN  [i \in 1..numSteps |->
            [type       |-> templateSteps[i],
             difficulty |-> Min(10, Max(1, difficulty + RandomBelow(r, 3) - 1))]]

\* generateARPuzzles: the number of puzzles
GenerateARPuzzles(difficulty) ==
    IF difficulty < 3 THEN 0 ELSE Min(2, difficulty \div 3)

\* settings that allow hints below difficulty 7 only
GenerateSettings_Strict(difficulty, estimatedDuration) ==
    [allowHints  |-> difficulty < 7,
     maxAttempts |-> IF difficulty <= 5 THEN 3 ELSE 2,
     timeLimit   |-> estimatedDuration * 90]

\* the settings object of generate
GenerateSettings(difficulty, estimatedDuration) ==
    [allowHints  |-> difficulty <= 7,
     maxAttempts |-> IF difficulty <= 5 THEN 3 ELSE 2,
     timeLimit   |-> estimatedDuration * 90]

\* the object generate returns, given the tables as its sorts left them
GeneratedMission(category, difficulty, playerLevel, r, tables, seed) ==
    LET template          == Templates(category)
        targets           == GenerateTargets(template.targets, difficulty)
        steps             == GenerateSteps(template.steps, difficulty, r)
        estimatedDuration == Max(10, Len(steps) * (5 + difficulty * 2))
    IN  [category          |-> category,
         difficulty        |-> difficulty,
         playerLevel       |-> playerLevel,
         targets           |-> [j \in 1..Len(targets) |->
                                  [type |-> targets[j],
                                   vulnerabilities |->
                                      GenerateVulnerabilities(
                                          tables[TableOf(targets[j])], difficulty)]],
         steps             |-> steps,
         arPuzzles         |-> GenerateARPuzzles(difficulty),
         estimatedDuration |-> estimatedDuration,
         rewards           |-> [experience  |-> difficulty * 50 + RandomBelow(r, 100),
                                skillPoints |-> difficulty * 5 + RandomBelow(r, 10),
                                currency    |-> difficulty * 25 + RandomBelow(r, 50)],
         settings          |-> GenerateSettings(difficulty, estimatedDuration),
         generationSeed    |-> seed,
         stored            |-> FALSE]

\* no mission generated yet
NoBlueprint ==
    [category |-> "none", difficulty |-> 0, playerLevel |-> 0, targets |-> <<>>,
     steps |-> <<>>, arPuzzles |-> 0, estimatedDuration |-> 0,
     rewards |-> [experience |-> 0, skillPoints |-> 0, currency |-> 0],
     settings |-> [allowHints |-> TRUE, maxAttempts |-> 0, timeLimit |-> 0],
     generationSeed |-> 0, stored |-> FALSE]

\* the generator before its first call
GeneratorIdle ==
    /\ vulnerabilities = VulnerabilityTables
    /\ blueprint = NoBlueprint
    /\ nStored = 0

\* socket objects and room ids
Sockets == 1..NumSockets
RoomIds == 1..NumRooms

\* a socket nobody has opened yet
NewSocket == [status |-> "new", currentRoom |-> 0]

\* no login attempted, no socket opened, no room tracked
SessionIdle ==
    /\ security = [loginAttempts |-> 0, lockUntil |-> Unset]
    /\ sockets = [s \in Sockets |-> NewSocket]
    /\ gameRooms = <<>>
    /\ activeConnections = <<>>

\* validators mission.save() runs on the generated document: the step type
\* enum and the difficulty ranges
ValidMission(m) ==
    /\ m.difficulty >= 1 /\ m.difficulty <= 10
    /\ \A i \in 1..Len(m.steps) :
          /\ m.steps[i].type \in StepTypes
          /\ m.steps[i].difficulty >= 1 /\ m.steps[i].difficulty <= 10

----------------------------------------------------------------------------
(* Responses *)

NoHint == "null"

\* a response body; `solutions` tells whether it carries the solution object
\* of a step or of an AR puzzle
Resp(op, step, kind) ==
    [op |-> op, step |-> step, kind |-> kind, reason |-> "none",
     attemptsRemaining |-> -1, hint |-> NoHint, score |-> -1,
     rewards |-> <<0, 0, 0>>, newLevel |-> FALSE, solutions |-> FALSE]

----------------------------------------------------------------------------
(* Documents the store can hold *)

\* step.solution and step.hints as MissionGenerator.generateSolution /
\* generateHints lay them out: a command list, an expected-output token and
\* an ordered hint list.  "ab" / "ba" stand for the command and the token.
StepDoc(i) ==
    [stepId      |-> i,
     type        |-> IF i = 1 THEN "port_scan" ELSE "exploit",
     difficulty  |-> IF i = 1 THEN 3 ELSE 5,
     hints       |-> <<"hint1", "hint2">>,
     solution    |-> [commands |-> << <<1, 2>> >>, expectedOutput |-> <<2, 1>>],
     completed   |-> FALSE,
     startedAt   |-> Unset,
     completedAt |-> Unset,
     attempts    |-> 0,
     hintsUsed   |-> Unset]

NoPrerequisites == [level |-> 1, skills |-> <<>>]
AlwaysOpen == [startDate |-> Unset, endDate |-> Unset, maxPlayers |-> Unset]

\* type, prerequisites and availability of the mission documents considered
MissionShapes ==
    { [type |-> "single_player", prerequisites |-> NoPrerequisites,
       availability |-> AlwaysOpen],
      [type |-> "cooperative", prerequisites |-> NoPrerequisites,
       availability |-> AlwaysOpen],
      [type |-> "competitive", prerequisites |-> NoPrerequisites,
       availability |-> [AlwaysOpen EXCEPT !.maxPlayers = 1]],
      [type |-> "single_player", prerequisites |-> [NoPrerequisites EXCEPT !.level = 2],
       availability |-> AlwaysOpen],
      [type |-> "single_player",
       prerequisites |-> [NoPrerequisites EXCEPT !.skills =
                            << [skill |-> "networkAnalysis", minLevel |-> 5] >>],
       availability |-> AlwaysOpen],
      [type |-> "cooperative", prerequisites |-> NoPrerequisites,
       availability |-> [AlwaysOpen EXCEPT !.startDate = 2]],
      [type |-> "single_player", prerequisites |-> NoPrerequisites,
       availability |-> [AlwaysOpen EXCEPT !.endDate = 1]] }

\* settings as MissionGenerator.generate pairs them: difficulty <= 5,
\* difficulty 6..7, difficulty >= 8
DefaultSettings == [allowHints |-> TRUE, maxAttempts |-> 3]

MissionSettings ==
    { DefaultSettings,
      [allowHints |-> TRUE,  maxAttempts |-> 2],
      [allowHints |-> FALSE, maxAttempts |-> 2] }

\* A mission document as Mission.save() first stores it: schema defaults
\* status 'active', currentPlayers 0, every step not completed, 0 attempts.
MissionDoc(sh, st) ==
    [status            |-> "active",
     type              |-> sh.type,
     difficulty        |-> 5,
     estimatedDuration |-> 30,
     prerequisites     |-> sh.prerequisites,
     steps             |-> [i \in StepIds |-> StepDoc(i)],
     rewards           |-> [experience |-> 250, skillPoints |-> 27, currency |-> 130],
     settings          |-> st,
     availability      |-> [startDate |-> sh.availability.startDate,
                            endDate |-> sh.availability.endDate,
                            maxPlayers |-> sh.availability.maxPlayers,
                            currentPlayers |-> 0]]

\* every shape with the default settings; the other settings on the
\* missions without prerequisites or availability limits
MissionDocs ==
    { MissionDoc(c[1], c[2]) :
        c \in { d \in MissionShapes \X MissionSettings :
                  \/ d[2] = DefaultSettings
                  \/ d[1].prerequisites = NoPrerequisites
                     /\ d[1].availability = AlwaysOpen } }

\* A freshly registered player (schema defaults) and a seasoned one.
FreshPlayer ==
      [level |-> 1, experience |-> 0, skillPoints |-> 0, currency |-> 1000,
       skills |-> [s \in Skills |-> 0],
       missionsCompleted |-> 0, missionsFailed |-> 0,
       streakCurrent |-> 0, streakBest |-> 0, currentMission |-> FALSE]

SeasonedPlayer ==
      [level |-> 3, experience |-> 500, skillPoints |-> 7, currency |-> 1200,
       skills |-> [s \in Skills |-> IF s \in {"networkAnalysis", "malwareDevelopment"}
                                     THEN 99 ELSE 10],
       missionsCompleted |-> 6, missionsFailed |-> 1,
       streakCurrent |-> 2, streakBest |-> 4, currentMission |-> FALSE]

\* A player whose stored level lags behind its experience: step rewards add
\* experience, the level is recomputed only when a mission completes.
VeteranPlayer ==
      [level |-> 3, experience |-> 2170, skillPoints |-> 40, currency |-> 2000,
       skills |-> [s \in Skills |-> 50],
       missionsCompleted |-> 6, missionsFailed |-> 3,
       streakCurrent |-> 0, streakBest |-> 4, currentMission |-> FALSE]

\* the player document with the number of other active missions it created
PlayerStores ==
    { <<FreshPlayer, 0>>, <<SeasonedPlayer, 0>>,
      <<SeasonedPlayer, MaxMissionsPerPlayer - 1>>, <<VeteranPlayer, 0>> }

\* request bodies of POST /:id/submit
Submissions ==
    { [kind |-> "missing"],
      [kind |-> "string", text |-> <<12, 1>>],
      [kind |-> "string", text |-> <<1, 2>>],
      [kind |-> "list", items |-> << <<1, 12, 1>> >>],
      [kind |-> "list", items |-> << <<2, 2>> >>],
      [kind |-> "numbers", count |-> 1],
      [kind |-> "object"] }

\* timeSpent of the request body; 0 stands for an absent value
TimeSpents == {0, 1200, 3000}

\* the player at the active-mission limit and the veteran are paired with
\* the plain missions
Init ==
    /\ mission \in MissionDocs
    /\ \E ps \in PlayerStores :
          /\ player = ps[1]
          /\ otherActive = ps[2]
          /\ (ps[2] = 0 /\ ps[1] # VeteranPlayer)
                \/ (mission.settings = DefaultSettings
                            /\ mission.prerequisites = NoPrerequisites
                            /\ mission.availability.startDate = Unset
                            /\ mission.availability.endDate = Unset
                            /\ mission.availability.maxPlayers = Unset)
    /\ res = Resp("none", 0, "none")
    /\ nOps = 0
    /\ clock = 1
    /\ reqs = <<>>
    /\ lastTimeSpent = 0
    /\ GeneratorIdle
    /\ SessionIdle

----------------------------------------------------------------------------
(* Progression ledger: the player updates of the submit handler *)

\* step reward without the skill nudge
ApplyStepReward_NoNudge(p, step) ==
    [p EXCEPT !.experience  = @ + step.difficulty * 10,
              !.skillPoints = @ + step.difficulty * 2,
              !.currency    = @ + step.difficulty * 5]

\* step reward and skill nudge of a correct submission
ApplyStepReward(p, step) ==
    LET relevantSkill == SkillMap(step.type)
        rewarded == [p EXCEPT !.experience  = @ + step.difficulty * 10,
                              !.skillPoints = @ + step.difficulty * 2,
                              !.currency    = @ + step.difficulty * 5]
    IN  IF step.type \in StepTypes /\ p.skills[relevantSkill] < SkillCap
        THEN [rewarded EXCEPT !.skills[relevantSkill] =
                                Min(@ + step.difficulty \div 2, SkillCap)]
        ELSE rewarded

\* mission completion that charges the currency reward instead of paying it
ApplyMissionReward_Charge(p, m) ==
    [p EXCEPT !.experience        = @ + m.rewards.experience,
              !.skillPoints       = @ + m.rewards.skillPoints,
              !.currency          = @ - m.rewards.currency,
              !.missionsCompleted = @ + 1,
              !.streakCurrent     = @ + 1,
              !.streakBest        = Max(@, p.streakCurrent + 1)]

\* final rewards that compare streakBest with the streak before its increment
ApplyMissionReward_StaleBest(p, m) ==
    [p EXCEPT !.experience        = @ + m.rewards.experience,
              !.skillPoints       = @ + m.rewards.skillPoints,
              !.currency          = @ + m.rewards.currency,
              !.missionsCompleted = @ + 1,
              !.streakCurrent     = @ + 1,
              !.streakBest        = Max(@, p.streakCurrent)]

\* final rewards, counters and streaks of a completed mission
ApplyMissionReward(p, m) ==
    [p EXCEPT !.experience        = @ + m.rewards.experience,
              !.skillPoints       = @ + m.rewards.skillPoints,
              !.currency          = @ + m.rewards.currency,
              !.missionsCompleted = @ + 1,
              !.streakCurrent     = @ + 1,
              !.streakBest        = Max(@, p.streakCurrent + 1)]

\* level update that pays the bonus once per level gained
UpdateLevel_PerLevel(p) ==
    IF CalculateLevel(p) > p.level
    THEN [p EXCEPT !.level = CalculateLevel(p),
                   !.skillPoints = @ + LevelUpBonus * (CalculateLevel(p) - p.level)]
    ELSE p

\* level update at mission completion
UpdateLevel(p) ==
    IF CalculateLevel(p) > p.level
    THEN [p EXCEPT !.level = CalculateLevel(p), !.skillPoints = @ + LevelUpBonus]
    ELSE p

\* ApplyFailure without the streak reset
ApplyFailure_KeepStreak(p) ==
    [p EXCEPT !.missionsFailed = @ + 1]

\* failure bookkeeping when the attempts are used up
ApplyFailure(p) ==
    [p EXCEPT !.missionsFailed = @ + 1, !.streakCurrent = 0]

\* settings.maxAttempts || 3
EffectiveMaxAttempts(m) ==
    IF m.settings.maxAttempts = 0 THEN DefaultMaxAttempts ELSE m.settings.maxAttempts

\* the submit handler without its `step.completed` test
IsStepCompleted_Never(m, i) == FALSE

\* `if (step.completed)` of the submit handler
IsStepCompleted(m, i) == m.steps[i].completed

\* completion test that is satisfied by one completed step
AllStepsCompleted_Some(m) == \E i \in 1..Len(m.steps) : m.steps[i].completed

\* `mission.steps.every(s => s.completed)`
AllStepsCompleted(m) == \A i \in 1..Len(m.steps) : m.steps[i].completed

TotalHintsUsed(m) == SumSeq([i \in 1..Len(m.steps) |-> m.steps[i].hintsUsed], Len(m.steps))
TotalAttempts(m)  == SumSeq([i \in 1..Len(m.steps) |-> m.steps[i].attempts], Len(m.steps))

\* the (single) step the response names as nextStep
StepReward(step) == <<step.difficulty * 10, step.difficulty * 2, step.difficulty * 5>>

----------------------------------------------------------------------------
(* POST /:id/submit, handled without interleaving *)

\* the handler from `step.attempts += 1` on, for a step found not completed:
\* the mission document, the player document and the response it leaves
SubmitOutcome(m, p, i, isCorrect, timeSpent, now) ==
    LET attempted == [m EXCEPT !.steps[i].attempts = @ + 1]
        step      == attempted.steps[i]
    IN
    IF isCorrect
    THEN
        LET done   == [attempted EXCEPT !.steps[i].completed = TRUE,
                                        !.steps[i].completedAt = now]
            paid   == ApplyStepReward(p, step)
            sr     == StepReward(step)
        IN
        IF AllStepsCompleted(done)
        THEN
            LET completionTime == IF timeSpent = 0 THEN done.estimatedDuration * 60
                                  ELSE timeSpent
                score    == CalculateScore(done, completionTime,
                                           TotalHintsUsed(done), TotalAttempts(done))
                awarded  == ApplyMissionReward(paid, done)
                newLevel == CalculateLevel(awarded)
                levelled == UpdateLevel(awarded)
            IN  [mission |-> SaveMission([done EXCEPT !.status = "completed"]),
                 player  |-> levelled,
                 res     |-> [Resp("submit", i, "MissionCompleted") EXCEPT
                                !.score = score,
                                !.rewards = <<sr[1] + done.rewards.experience,
                                              sr[2] + done.rewards.skillPoints,
                                              sr[3] + done.rewards.currency>>,
                                !.newLevel = (newLevel > levelled.level - 1)]]
        ELSE
            [mission |-> SaveMission(done),
             player  |-> paid,
             res     |-> [Resp("submit", i, "StepCompleted") EXCEPT !.rewards = sr]]
    ELSE
        IF step.attempts >= EffectiveMaxAttempts(attempted)
        THEN
            [mission |-> SaveMission([attempted EXCEPT !.status = "completed"]),
             player  |-> ApplyFailure(p),
             res     |-> [Resp("submit", i, "MissionFailed") EXCEPT
                            !.attemptsRemaining = 0]]
        ELSE
            [mission |-> SaveMission(attempted),
             player  |-> p,
             res     |-> [Resp("submit", i, "IncorrectSolution") EXCEPT
                            !.attemptsRemaining =
                                EffectiveMaxAttempts(attempted) - step.attempts,
                            !.hint = IF Len(step.hints) > step.attempts - 1
                                     THEN step.hints[step.attempts]
                                     ELSE NoHint]]

\* the request's timeSpent is read only when the submission completes the mission
ReadsTimeSpent(m, i, isCorrect) ==
    isCorrect /\ \A j \in 1..Len(m.steps) : j = i \/ m.steps[j].completed

\* a submit handler that adds the request's timeSpent to the experience
Submit_TimedReward(stepId, submitted) ==
    /\ nOps < MaxOps
    /\ nOps' = nOps + 1
    /\ UNCHANGED <<otherActive, clock, reqs, genVars, sessionVars>>
    /\ stepId \in 1..Len(mission.steps)
    /\ ~IsStepCompleted(mission, stepId)
    /\ \E isCorrect \in ValidateSolution(mission.steps[stepId], submitted) :
       \E timeSpent \in TimeSpents :
          LET out == SubmitOutcome(mission, player, stepId, isCorrect, timeSpent, clock)
          IN  /\ mission' = out.mission
              /\ player'  = [out.player EXCEPT !.experience = @ + timeSpent]
              /\ res'     = out.res
              /\ lastTimeSpent' = timeSpent

Submit(stepId, submitted) ==
    /\ nOps < MaxOps
    /\ nOps' = nOps + 1
    /\ UNCHANGED <<otherActive, clock, reqs, genVars, sessionVars>>
    /\ IF stepId \notin 1..Len(mission.steps)
       THEN /\ res' = Resp("submit", stepId, "StepNotFound")
            /\ lastTimeSpent' = 0
            /\ UNCHANGED <<mission, player>>
       ELSE IF IsStepCompleted(mission, stepId)
       THEN /\ res' = Resp("submit", stepId, "AlreadyCompleted")
            /\ lastTimeSpent' = 0
            /\ UNCHANGED <<mission, player>>
       ELSE IF ValidateSolution(mission.steps[stepId], submitted) = {}
       THEN \* TypeError inside validateSolution: caught, nothing saved
            /\ res' = Resp("submit", stepId, "ServerError")
            /\ lastTimeSpent' = 0
            /\ UNCHANGED <<mission, player>>
       ELSE \E isCorrect \in ValidateSolution(mission.steps[stepId], submitted) :
            \E timeSpent \in IF ReadsTimeSpent(mission, stepId, isCorrect)
                              THEN TimeSpents ELSE {0} :
              LET out == SubmitOutcome(mission, player, stepId, isCorrect,
                                       timeSpent, clock)
              IN  /\ mission' = out.mission
                  /\ player'  = out.player
                  /\ res'     = out.res
                  /\ lastTimeSpent' = timeSpent

----------------------------------------------------------------------------
(* POST /:id/start *)

\* countDocuments({ 'metadata.creator': player, status: 'active' }): the
\* mission at hand, the player's other stored missions, and the generated ones
ActiveMissions ==
    otherActive + nStored + (IF mission.status = "active" THEN 1 ELSE 0)

\* a start that stamps the steps but keeps their attempts
StartedMission_KeepAttempts(m, now) ==
    LET reset == [m EXCEPT !.steps = [i \in 1..Len(m.steps) |->
                        [m.steps[i] EXCEPT !.startedAt = now,
                                           !.completed = FALSE]]]
    IN  IF m.type # "single_player"
        THEN [reset EXCEPT !.availability.currentPlayers = @ + 1]
        ELSE reset

\* the step initialisation and occupancy update of a start that passed its checks
StartedMission(m, now) ==
    LET reset == [m EXCEPT !.steps = [i \in 1..Len(m.steps) |->
                        [m.steps[i] EXCEPT !.startedAt = now,
                                           !.completed = FALSE,
                                           !.attempts  = 0]]]
    IN  IF m.type # "single_player"
        THEN [reset EXCEPT !.availability.currentPlayers = @ + 1]
        ELSE reset

Start ==
    /\ nOps < MaxOps
    /\ nOps' = nOps + 1
    /\ UNCHANGED <<otherActive, clock, reqs, genVars, sessionVars>>
    /\ lastTimeSpent' = 0
    /\ LET availability == IsAvailableFor(mission, player, clock) IN
       IF ~availability.available
       THEN /\ res' = [Resp("start", 0, "NotAvailable") EXCEPT
                          !.reason = availability.reason]
            /\ UNCHANGED <<mission, player>>
       ELSE IF ActiveMissions >= MaxMissionsPerPlayer
       THEN /\ res' = Resp("start", 0, "TooManyActive")
            /\ UNCHANGED <<mission, player>>
       ELSE /\ mission' = SaveMission(StartedMission(mission, clock))
            /\ player' = [player EXCEPT !.currentMission = TRUE]
            /\ res' = Resp("start", 0, "Started")

----------------------------------------------------------------------------
(* GET /:id/hint/:stepId *)

RequestHint(stepId) ==
    /\ nOps < MaxOps
    /\ nOps' = nOps + 1
    /\ UNCHANGED <<player, otherActive, clock, reqs, genVars, sessionVars>>
    /\ lastTimeSpent' = 0
    /\ IF ~mission.settings.allowHints
       THEN /\ res' = Resp("hint", stepId, "HintsDisallowed")
            /\ UNCHANGED mission
       ELSE IF stepId \notin 1..Len(mission.steps)
       THEN /\ res' = Resp("hint", stepId, "StepNotFound")
            /\ UNCHANGED mission
       ELSE IF mission.steps[stepId].completed
       THEN /\ res' = Resp("hint", stepId, "AlreadyCompleted")
            /\ UNCHANGED mission
       ELSE
         LET step      == mission.steps[stepId]
             hintsUsed == step.hintsUsed
         IN  IF hintsUsed >= Len(step.hints)
             THEN /\ res' = Resp("hint", stepId, "NoHintsRemaining")
                  /\ UNCHANGED mission
             ELSE /\ mission' = SaveMission(
                        [mission EXCEPT !.steps[stepId].hintsUsed = hintsUsed + 1])
                  /\ res' = [Resp("hint", stepId, "Hint") EXCEPT
                                !.hint = step.hints[hintsUsed + 1]]

----------------------------------------------------------------------------
(* Sequential specification: one request is handled at a time *)

\* time passes between requests
Tick ==
    /\ clock < MaxTime
    /\ clock' = clock + 1
    /\ UNCHANGED <<mission, player, res, nOps, otherActive, reqs, lastTimeSpent, genVars, sessionVars>>

Next ==
    \/ Start
    \/ \E stepId \in 0..NumSteps, submitted \in Submissions : Submit(stepId, submitted)
    \/ \E stepId \in 0..NumSteps : RequestHint(stepId)
    \/ Tick

Spec == Init /\ [][Next]_vars

----------------------------------------------------------------------------
(* POST /api/game/skills/upgrade *)

\* `points` of the request body: a number, or a string holding one digit
UpgradePoints ==
    { [kind |-> "number", value |-> 0], [kind |-> "number", value |-> 1],
      [kind |-> "number", value |-> 5], [kind |-> "string", value |-> 5] }

UpgradeSkillNames == {"networkAnalysis", "cryptography", "stealth"}

\* `currentLevel + points`: a sum for a number, a concatenation for a string
PlusPoints(currentLevel, points) ==
    IF points.kind = "number" THEN currentLevel + points.value
    ELSE currentLevel * 10 + points.value

\* the player document after the handler's two assignments
UpgradedPlayer(p, skill, points) ==
    LET currentLevel == p.skills[skill]
        newLevel     == Min(UpgradeCap, PlusPoints(currentLevel, points))
        pointsUsed   == newLevel - currentLevel
    IN  [p EXCEPT !.skills[skill] = newLevel, !.skillPoints = @ - pointsUsed]

\* validators of the player schema that save() runs: skills min 0 max 100,
\* skillPoints min 0, experience min 0
ValidPlayer(p) ==
    /\ \A s \in Skills : p.skills[s] >= 0 /\ p.skills[s] <= 100
    /\ p.skillPoints >= 0
    /\ p.experience >= 0

\* an upgrade that adds the points without cap, checks or validation
UpgradeSkill_Unchecked(skill, points) ==
    /\ nOps < MaxOps
    /\ nOps' = nOps + 1
    /\ skill \in Skills
    /\ player' = [player EXCEPT !.skills[skill] = PlusPoints(@, points)]
    /\ res' = Resp("upgrade", 0, "Upgraded")
    /\ lastTimeSpent' = 0
    /\ UNCHANGED <<mission, otherActive, clock, reqs, genVars, sessionVars>>

UpgradeSkill(skill, points) ==
    /\ nOps < MaxOps
    /\ nOps' = nOps + 1
    /\ lastTimeSpent' = 0
    /\ UNCHANGED <<mission, otherActive, clock, reqs, genVars, sessionVars>>
    /\ IF skill \notin Skills
       THEN /\ res' = Resp("upgrade", 0, "InvalidSkill")
            /\ UNCHANGED player
       ELSE IF points.value <= 0 \/ player.skillPoints < points.value
       THEN /\ res' = Resp("upgrade", 0, "InsufficientPoints")
            /\ UNCHANGED player
       ELSE IF ~ValidPlayer(UpgradedPlayer(player, skill, points))
       THEN \* ValidationError from save(): caught, nothing stored
            /\ res' = Resp("upgrade", 0, "ServerError")
            /\ UNCHANGED player
       ELSE /\ player' = UpgradedPlayer(player, skill, points)
            /\ res' = Resp("upgrade", 0, "Upgraded")

----------------------------------------------------------------------------
(* Ledger specification: submissions and skill upgrades of one player *)

LedgerInit ==
    /\ Init
    /\ mission.prerequisites = NoPrerequisites
    /\ mission.availability.startDate = Unset
    /\ mission.availability.endDate = Unset
    /\ mission.availability.maxPlayers = Unset
    /\ mission.type = "single_player"
    /\ otherActive = 0

LedgerNext ==
    \/ \E stepId \in 0..NumSteps, submitted \in Submissions : Submit(stepId, submitted)
    \/ \E skill \in UpgradeSkillNames, points \in UpgradePoints : UpgradeSkill(skill, points)

LedgerSpec == LedgerInit /\ [][LedgerNext]_vars

----------------------------------------------------------------------------
(* Score specification: calculateScore applied to drawn arguments *)

ScoreDifficulties == 1..10
ScoreDurations == {10, 30}
\* completion times on both sides of 0.8 and 1.5 times either duration
ScoreTimes == {1, 479, 480, 900, 901, 1439, 1440, 2700, 2701}
ScoreHints == {0, 1, 4, 18, 30}
ScoreAttempts == {1, 2, 3, 6, 40}

\* the arguments of the pending call are kept in `reqs`
ScoreInit ==
    /\ \E d \in ScoreDifficulties, e \in ScoreDurations :
          mission = [MissionDoc([type |-> "single_player",
                                 prerequisites |-> NoPrerequisites,
                                 availability |-> AlwaysOpen], DefaultSettings)
                        EXCEPT !.difficulty = d, !.estimatedDuration = e]
    /\ reqs \in [completionTime : ScoreTimes, hintsUsed : ScoreHints,
                  attempts : ScoreAttempts]
    /\ player = FreshPlayer
    /\ otherActive = 0
    /\ res = Resp("none", 0, "none")
    /\ nOps = 0
    /\ clock = 1
    /\ lastTimeSpent = 0
    /\ GeneratorIdle
    /\ SessionIdle

\* mission.calculateScore(completionTime, hintsUsed, attempts)
ScoreCall ==
    /\ nOps = 0
    /\ nOps' = 1
    /\ res' = [Resp("score", 0, "Score") EXCEPT
                 !.score = CalculateScore(mission, reqs.completionTime,
                                          reqs.hintsUsed, reqs.attempts)]
    /\ UNCHANGED <<mission, player, otherActive, clock, reqs, lastTimeSpent, genVars, sessionVars>>

ScoreNext == ScoreCall

ScoreSpec == ScoreInit /\ [][ScoreNext]_vars

----------------------------------------------------------------------------
(* MissionGenerator.validateSolution on drawn descriptors and submissions *)

\* longest submitted string
MaxText == 2

\* characters of a submitted string: two letters, in either case
TextChars == {1, 2, 11, 12}

Texts == UNION {[1..n -> TextChars] : n \in 0..MaxText}

\* step.solution of the matched step
MatchSolutions ==
    { [commands |-> << <<1, 2>> >>,       expectedOutput |-> <<2, 1>>],
      [commands |-> << <<11>>, <<2, 2>> >>, expectedOutput |-> <<12>>],
      [commands |-> << <<1>> >>,            expectedOutput |-> <<>>] }

\* submittedSolution: absent, a string, a list of strings, a list of
\* numbers, or a plain object
MatchSubmissions ==
    {[kind |-> "missing"], [kind |-> "object"],
     [kind |-> "numbers", count |-> 1], [kind |-> "list", items |-> <<>>]}
    \cup {[kind |-> "string", text |-> t] : t \in Texts}
    \cup {[kind |-> "list", items |-> <<t>>] : t \in Texts}
    \cup {[kind |-> "list", items |-> <<t, <<2>> >>] : t \in {<<>>, <<1>>, <<12>>}}

\* the arguments of the pending call are kept in `reqs`
MatchInit ==
    /\ mission = MissionDoc([type |-> "single_player", prerequisites |-> NoPrerequisites,
                             availability |-> AlwaysOpen], DefaultSettings)
    /\ reqs \in [solution : MatchSolutions, submitted : MatchSubmissions]
    /\ player = FreshPlayer
    /\ otherActive = 0
    /\ res = Resp("none", 0, "none")
    /\ nOps = 0
    /\ clock = 1
    /\ lastTimeSpent = 0
    /\ GeneratorIdle
    /\ SessionIdle

\* MissionGenerator.validateSolution(step, submittedSolution); the response
\* records the returned value and whether Math.random() chose it
MatchCall ==
    /\ nOps = 0
    /\ nOps' = 1
    /\ LET outcomes == ValidateSolution([solution |-> reqs.solution], reqs.submitted)
       IN  IF outcomes = {}
           THEN res' = [Resp("validate", 0, "TypeError") EXCEPT !.reason = "threw"]
           ELSE \E isCorrect \in outcomes :
                  res' = [Resp("validate", 0,
                               IF isCorrect THEN "Accepted" ELSE "Rejected")
                            EXCEPT !.reason = IF outcomes = BOOLEAN THEN "random"
                                              ELSE "matched"]
    /\ UNCHANGED <<mission, player, otherActive, clock, reqs, lastTimeSpent, genVars, sessionVars>>

MatchNext == MatchCall

MatchSpec == MatchInit /\ [][MatchNext]_vars

----------------------------------------------------------------------------
(* GET /api/missions/generate: a client that repeats one query *)

\* number of generate requests in one behaviour
MaxGens == 2

\* req.query.category: a template name, a schema category without template,
\* an inherited property name, or absent
QueryCategories == Categories \cup {"tutorial", "mixed"} \cup PrototypeKeys \cup {"absent"}

\* req.query.difficulty, parsed; 0 stands for an absent value
QueryDifficulties == 0..10

\* the tables after generateTargets sorted, in place, the table of each
\* selected target
SortedTables(tables, targets) ==
    LET touched   == {TableOf(targets[j]) : j \in 1..Len(targets)}
        Orders(k) == IF k \in touched THEN Shuffles(tables[k]) ELSE {tables[k]}
    IN  { [web_server |-> a, database |-> b, network_device |-> c, workstation |-> d] :
            a \in Orders("web_server"), b \in Orders("database"),
            c \in Orders("network_device"), d \in Orders("workstation") }

\* the handler, for the query string held in reqs
Generate ==
    /\ nOps < MaxGens
    /\ nOps' = nOps + 1
    /\ UNCHANGED <<mission, player, otherActive, clock, reqs, lastTimeSpent, sessionVars>>
    /\ LET category         == reqs.category
           difficulty       == reqs.difficulty
           targetDifficulty == IF difficulty # 0 THEN difficulty
                               ELSE Min(player.level, 10)
       IN
       \E targetCategory \in (IF category = "absent" THEN Categories ELSE {category}) :
         IF targetCategory \in PrototypeKeys
         THEN \* `template.backgrounds.length` on an inherited property
              /\ res' = [Resp("generate", 0, "ServerError") EXCEPT !.reason = "TypeError"]
              /\ UNCHANGED genVars
         ELSE IF targetCategory \notin Categories
         THEN /\ res' = [Resp("generate", 0, "ServerError") EXCEPT
                            !.reason = "Unknown category"]
              /\ UNCHANGED genVars
         ELSE
           \E r \in RandomDraws :
           \E tables \in SortedTables(vulnerabilities,
                            GenerateTargets(Templates(targetCategory).targets,
                                            targetDifficulty)) :
             LET generatedMission ==
                    GeneratedMission(targetCategory, targetDifficulty, player.level,
                                     r, tables, clock)
             IN  /\ vulnerabilities' = tables
                 /\ IF ~ValidMission(generatedMission)
                    THEN /\ blueprint' = generatedMission
                         /\ nStored' = nStored
                         /\ res' = [Resp("generate", 0, "ServerError") EXCEPT
                                       !.reason = "ValidationError"]
                    ELSE \* casting of the paths not modelled (tools, defenses)
                         \* can fail the save as well
                         \E saved \in BOOLEAN :
                           IF saved
                           THEN /\ blueprint' = [generatedMission EXCEPT !.stored = TRUE]
                                /\ nStored' = nStored + 1
                                \* the body spreads mission.toObject()
                                /\ res' = [Resp("generate", 0, "Generated") EXCEPT
                                              !.solutions = TRUE]
                           ELSE /\ blueprint' = generatedMission
                                /\ nStored' = nStored
                                /\ res' = [Resp("generate", 0, "ServerError") EXCEPT
                                              !.reason = "ValidationError"]

GenInit ==
    /\ mission = MissionDoc([type |-> "single_player", prerequisites |-> NoPrerequisites,
                             availability |-> AlwaysOpen], DefaultSettings)
    /\ player = SeasonedPlayer
    /\ otherActive = 0
    /\ res = Resp("none", 0, "none")
    /\ nOps = 0
    /\ clock = 1
    /\ reqs \in [category : QueryCategories, difficulty : QueryDifficulties]
    /\ lastTimeSpent = 0
    /\ GeneratorIdle
    /\ SessionIdle

GenNext ==
    \/ Generate
    \/ Tick

GenSpec == GenInit /\ [][GenNext]_vars

----------------------------------------------------------------------------
(* Active-mission limit: a player generates missions and starts one *)

\* the player's missions generated before and never started
EarlierGenerated == {0, MaxMissionsPerPlayer - 2}

QuotaInit ==
    /\ mission = MissionDoc([type |-> "single_player", prerequisites |-> NoPrerequisites,
                             availability |-> AlwaysOpen], DefaultSettings)
    /\ player = SeasonedPlayer
    /\ otherActive \in EarlierGenerated
    /\ res = Resp("none", 0, "none")
    /\ nOps = 0
    /\ clock = 1
    /\ reqs \in [category : {"web_security", "forensics"}, difficulty : {0, 1, 2}]
    /\ lastTimeSpent = 0
    /\ GeneratorIdle
    /\ SessionIdle

QuotaNext ==
    \/ Generate
    \/ Start

QuotaSpec == QuotaInit /\ [][QuotaNext]_vars

----------------------------------------------------------------------------
(* POST /api/auth/login of one active account *)

\* failed attempts that lock the account
MaxLoginAttempts == 5
\* the two hours of a lock, in clock ticks
LockTicks == 3
\* number of login requests in one behaviour
MaxLogins == 8
\* last clock value of the login specification
MaxLoginTime == 12

\* playerSchema.virtual('isLocked')
IsLocked(sec, now) == sec.lockUntil # Unset /\ sec.lockUntil > now

\* incLoginAttempts that never restarts the counter
IncLoginAttempts_NoRestart(sec, now) ==
    [loginAttempts |-> sec.loginAttempts + 1,
     lockUntil     |-> IF sec.loginAttempts + 1 >= MaxLoginAttempts /\ ~IsLocked(sec, now)
                       THEN now + LockTicks ELSE sec.lockUntil]

\* playerSchema.methods.incLoginAttempts
IncLoginAttempts(sec, now) ==
    IF sec.lockUntil # Unset /\ sec.lockUntil < now
    THEN [loginAttempts |-> 1, lockUntil |-> Unset]
    ELSE [loginAttempts |-> sec.loginAttempts + 1,
          lockUntil     |-> IF sec.loginAttempts + 1 >= MaxLoginAttempts
                                  /\ ~IsLocked(sec, now)
                            THEN now + LockTicks ELSE sec.lockUntil]

LoginInit ==
    /\ mission = MissionDoc([type |-> "single_player", prerequisites |-> NoPrerequisites,
                             availability |-> AlwaysOpen], DefaultSettings)
    /\ player = FreshPlayer
    /\ otherActive = 0
    /\ res = Resp("none", 0, "none")
    /\ nOps = 0
    /\ clock = 1
    /\ reqs = <<>>
    /\ lastTimeSpent = 0
    /\ GeneratorIdle
    /\ SessionIdle

\* the login route; the bcrypt comparison of the cost-12 hash takes time, so
\* incLoginAttempts reads a later clock than the isLocked test of the route
Login(known, isMatch) ==
    /\ nOps < MaxLogins
    /\ clock < MaxLoginTime
    /\ nOps' = nOps + 1
    /\ IF ~known
       THEN /\ res' = [Resp("login", 0, "InvalidCredentials") EXCEPT
                          !.reason = "unknown login"]
            /\ UNCHANGED <<security, clock>>
       ELSE IF IsLocked(security, clock)
       THEN /\ res' = Resp("login", 0, "Locked")
            /\ UNCHANGED <<security, clock>>
       ELSE /\ clock' = clock + 1
            /\ IF ~isMatch
               THEN /\ security' = IncLoginAttempts(security, clock + 1)
                    /\ res' = [Resp("login", 0, "InvalidCredentials") EXCEPT
                                  !.reason = "wrong password"]
               ELSE /\ security' = IF security.loginAttempts > 0
                                   THEN [loginAttempts |-> 0, lockUntil |-> Unset]
                                   ELSE security
                    /\ res' = Resp("login", 0, "LoggedIn")
    /\ UNCHANGED <<mission, player, otherActive, reqs, lastTimeSpent, genVars,
                   sockets, gameRooms, activeConnections>>

\* time passes between two login requests
Wait ==
    /\ clock < MaxLoginTime
    /\ clock' = clock + 1
    /\ UNCHANGED <<mission, player, res, nOps, otherActive, reqs, lastTimeSpent,
                   genVars, sessionVars>>

LoginNext ==
    \/ \E known \in BOOLEAN, isMatch \in BOOLEAN : Login(known, isMatch)
    \/ Wait

LoginSpec == LoginInit /\ [][LoginNext]_vars

----------------------------------------------------------------------------
(* Socket handler: connection, join_room, leave_room and disconnect events *)

\* decoded.id of the token a socket presents: sockets 1 and 2 are two
\* connections of one player, every further socket is another player's
PlayerOf(s) == IF s <= 2 THEN 1 ELSE s - 1

PlayerIds == {PlayerOf(s) : s \in Sockets}

\* Map.prototype.set
MapSet(f, k, v) == [x \in DOMAIN f \cup {k} |-> IF x = k THEN v ELSE f[x]]

\* Map.prototype.delete
MapDelete(f, k) == [x \in DOMAIN f \ {k} |-> f[x]]

\* removeFromGameRoom that keeps a room nobody is left in
RemoveFromGameRoom_KeepEmpty(rooms, roomId, playerId) ==
    IF roomId \in DOMAIN rooms
    THEN [rooms EXCEPT ![roomId] = MapDelete(@, playerId)]
    ELSE rooms

\* removeFromGameRoom
RemoveFromGameRoom(rooms, roomId, playerId) ==
    IF roomId \in DOMAIN rooms
    THEN LET players == MapDelete(rooms[roomId], playerId)
         IN  IF DOMAIN players = {}
             THEN MapDelete(rooms, roomId)
             ELSE [rooms EXCEPT ![roomId] = players]
    ELSE rooms

SocketInit ==
    /\ mission = MissionDoc([type |-> "cooperative", prerequisites |-> NoPrerequisites,
                             availability |-> AlwaysOpen], DefaultSettings)
    /\ player = FreshPlayer
    /\ otherActive = 0
    /\ res = Resp("none", 0, "none")
    /\ nOps = 0
    /\ clock = 1
    /\ reqs = <<>>
    /\ lastTimeSpent = 0
    /\ GeneratorIdle
    /\ SessionIdle

\* io.on('connection'): a socket that fails authentication is disconnected
\* before any handler is registered
Connect(s, authenticated) ==
    /\ sockets[s].status = "new"
    /\ IF authenticated
       THEN /\ sockets' = [sockets EXCEPT ![s].status = "connected"]
            /\ activeConnections' = MapSet(activeConnections, PlayerOf(s), s)
       ELSE /\ sockets' = [sockets EXCEPT ![s].status = "closed"]
            /\ UNCHANGED activeConnections
    /\ UNCHANGED <<mission, player, res, nOps, otherActive, clock, reqs, lastTimeSpent,
                   genVars, security, gameRooms>>

\* handleJoinRoom; roomId 0 stands for a missing room id
HandleJoinRoom(s, roomId) ==
    /\ sockets[s].status = "connected"
    /\ IF roomId = 0
       THEN UNCHANGED <<sockets, gameRooms>>
       ELSE LET left    == IF sockets[s].currentRoom # 0
                           THEN RemoveFromGameRoom(gameRooms, sockets[s].currentRoom,
                                                   PlayerOf(s))
                           ELSE gameRooms
                tracked == IF roomId \in DOMAIN left THEN left
                           ELSE MapSet(left, roomId, <<>>)
            IN  /\ sockets' = [sockets EXCEPT ![s].currentRoom = roomId]
                /\ gameRooms' = [tracked EXCEPT ![roomId] = MapSet(@, PlayerOf(s), s)]
    /\ UNCHANGED <<mission, player, res, nOps, otherActive, clock, reqs, lastTimeSpent,
                   genVars, security, activeConnections>>

\* handleLeaveRoom
HandleLeaveRoom(s) ==
    /\ sockets[s].status = "connected"
    /\ IF sockets[s].currentRoom = 0
       THEN UNCHANGED <<sockets, gameRooms>>
       ELSE /\ gameRooms' = RemoveFromGameRoom(gameRooms, sockets[s].currentRoom,
                                               PlayerOf(s))
            /\ sockets' = [sockets EXCEPT ![s].currentRoom = 0]
    /\ UNCHANGED <<mission, player, res, nOps, otherActive, clock, reqs, lastTimeSpent,
                   genVars, security, activeConnections>>

\* handleDisconnect
HandleDisconnect(s) ==
    /\ sockets[s].status = "connected"
    /\ sockets' = [sockets EXCEPT ![s].status = "closed"]
    /\ gameRooms' = IF sockets[s].currentRoom # 0
                    THEN RemoveFromGameRoom(gameRooms, sockets[s].currentRoom,
                                            PlayerOf(s))
                    ELSE gameRooms
    /\ activeConnections' = MapDelete(activeConnections, PlayerOf(s))
    /\ UNCHANGED <<mission, player, res, nOps, otherActive, clock, reqs, lastTimeSpent,
                   genVars, security>>

SocketNext ==
    \/ \E s \in Sockets, authenticated \in BOOLEAN : Connect(s, authenticated)
    \/ \E s \in Sockets, roomId \in 0..NumRooms : HandleJoinRoom(s, roomId)
    \/ \E s \in Sockets : HandleLeaveRoom(s)
    \/ \E s \in Sockets : HandleDisconnect(s)

SocketSpec == SocketInit /\ [][SocketNext]_vars

----------------------------------------------------------------------------
(* Concurrent specification: submit requests interleave at their awaits.   *)
(* Each request works on the documents it loaded; save() writes the paths  *)
(* the request changed since it loaded or last saved them.                 *)

Reqs == 1..NumReqs

\* Document.save() on a mission: $set of the modified paths only
SaveMissionPaths(stored, local, base) ==
    [stored EXCEPT
        !.status = IF local.status # base.status THEN local.status ELSE @,
        !.steps  = [i \in 1..Len(stored.steps) |->
            [stored.steps[i] EXCEPT
                !.attempts    = IF local.steps[i].attempts # base.steps[i].attempts
                                THEN local.steps[i].attempts ELSE @,
                !.completed   = IF local.steps[i].completed # base.steps[i].completed
                                THEN local.steps[i].completed ELSE @,
                !.completedAt = IF local.steps[i].completedAt # base.steps[i].completedAt
                                THEN local.steps[i].completedAt ELSE @]]]

\* Document.save() on a player: $set of the modified paths only
SavePlayerPaths(stored, local, base) ==
    [f \in DOMAIN stored |->
        IF f = "skills"
        THEN [k \in Skills |-> IF local.skills[k] # base.skills[k]
                               THEN local.skills[k] ELSE stored.skills[k]]
        ELSE IF local[f] # base[f] THEN local[f] ELSE stored[f]]

IdleReq ==
    [pc |-> "idle", stepId |-> 0, isCorrect |-> FALSE, timeSpent |-> 0,
     out |-> Resp("none", 0, "none"),
     m |-> <<>>, mBase |-> <<>>, p |-> <<>>, pBase |-> <<>>,
     sawIncomplete |-> FALSE, kind |-> "none"]

\* the submissions of the concurrent requests: an accepted and a rejected list
ConcSubmissions ==
    { [kind |-> "list", items |-> << <<1, 12, 1>> >>],
      [kind |-> "list", items |-> << <<2, 2>> >>] }

ConcTimeSpents == {0, 1200}

ConcInit ==
    /\ mission = MissionDoc([type |-> "cooperative", prerequisites |-> NoPrerequisites,
                             availability |-> AlwaysOpen],
                            [allowHints |-> TRUE, maxAttempts |-> 2])
    /\ player \in {FreshPlayer, SeasonedPlayer}
    /\ otherActive = 0
    /\ res = Resp("none", 0, "none")
    /\ nOps = 0
    /\ clock = 1
    /\ reqs = [r \in Reqs |-> IdleReq]
    /\ lastTimeSpent = 0
    /\ GeneratorIdle
    /\ SessionIdle

Respond(r, kind) ==
    [reqs EXCEPT ![r].pc = "done", ![r].kind = kind, ![r].out = Resp("none", 0, "none"),
                 ![r].m = <<>>, ![r].mBase = <<>>, ![r].p = <<>>, ![r].pBase = <<>>]

\* auth middleware: Player.findById fills req.player
Auth(r, stepId, submitted, timeSpent) ==
    /\ reqs[r].pc \in {"idle", "done"}
    /\ nOps < MaxConcOps
    /\ nOps' = nOps + 1
    /\ ValidateSolution(mission.steps[stepId], submitted) # {}
    /\ \E isCorrect \in ValidateSolution(mission.steps[stepId], submitted) :
         reqs' = [reqs EXCEPT ![r] = [IdleReq EXCEPT
                    !.pc = "authed", !.stepId = stepId, !.isCorrect = isCorrect,
                    !.timeSpent = timeSpent,
                    !.p = player, !.pBase = player]]
    /\ UNCHANGED <<mission, player, res, otherActive, clock, lastTimeSpent, genVars, sessionVars>>

\* Mission.findById resolves; the handler runs up to its first save()
LoadMission(r) ==
    /\ reqs[r].pc = "authed"
    /\ LET i         == reqs[r].stepId
           attempted == [mission EXCEPT !.steps[i].attempts = @ + 1]
           step      == attempted.steps[i]
       IN
       IF IsStepCompleted(mission, i)
       THEN /\ reqs' = Respond(r, "AlreadyCompleted")
            /\ res' = Resp("submit", i, "AlreadyCompleted")
       ELSE IF reqs[r].isCorrect
       THEN /\ reqs' = [reqs EXCEPT
                    ![r].pc = "saveStep", ![r].sawIncomplete = TRUE,
                    ![r].mBase = mission,
                    ![r].m = [attempted EXCEPT !.steps[i].completed = TRUE,
                                               !.steps[i].completedAt = clock],
                    ![r].p = ApplyStepReward(reqs[r].p, step)]
            /\ UNCHANGED res
       ELSE IF step.attempts >= EffectiveMaxAttempts(attempted)
       THEN /\ reqs' = [reqs EXCEPT
                    ![r].pc = "saveFailed", ![r].sawIncomplete = TRUE,
                    ![r].mBase = mission,
                    ![r].m = [attempted EXCEPT !.status = "completed"],
                    ![r].p = ApplyFailure(reqs[r].p)]
            /\ UNCHANGED res
       ELSE /\ reqs' = [reqs EXCEPT
                    ![r].pc = "saveWrong", ![r].sawIncomplete = TRUE,
                    ![r].mBase = mission, ![r].m = attempted]
            /\ UNCHANGED res
    /\ UNCHANGED <<mission, player, nOps, otherActive, clock, lastTimeSpent, genVars, sessionVars>>

\* `await mission.save()` of any branch
SaveMissionStep(r) ==
    /\ reqs[r].pc \in {"saveStep", "saveFailed", "saveWrong", "saveCompleted"}
    /\ mission' = SaveMissionPaths(mission, reqs[r].m, reqs[r].mBase)
    /\ LET i == reqs[r].stepId
           step == reqs[r].m.steps[i]
       IN
       IF reqs[r].pc = "saveWrong"
       THEN /\ reqs' = Respond(r, "IncorrectSolution")
            /\ res' = [Resp("submit", i, "IncorrectSolution") EXCEPT
                         !.attemptsRemaining =
                            EffectiveMaxAttempts(reqs[r].m) - step.attempts,
                         !.hint = IF Len(step.hints) > step.attempts - 1
                                  THEN step.hints[step.attempts] ELSE NoHint]
       ELSE /\ reqs' = [reqs EXCEPT
                    ![r].pc = CASE reqs[r].pc = "saveStep"   -> "savePlayerStep"
                                [] reqs[r].pc = "saveFailed" -> "savePlayerFailed"
                                [] OTHER                     -> "savePlayerCompleted",
                    ![r].mBase = reqs[r].m]
            /\ UNCHANGED res
    /\ UNCHANGED <<player, nOps, otherActive, clock, lastTimeSpent, genVars, sessionVars>>

\* `await req.player.save()` after the step reward; then the completion check
SavePlayerStep(r) ==
    /\ reqs[r].pc = "savePlayerStep"
    /\ player' = SavePlayerPaths(player, reqs[r].p, reqs[r].pBase)
    /\ LET i  == reqs[r].stepId
           m  == reqs[r].m
           sr == StepReward(m.steps[i])
       IN
       IF AllStepsCompleted(m)
       THEN LET completionTime == IF reqs[r].timeSpent = 0
                                  THEN m.estimatedDuration * 60
                                  ELSE reqs[r].timeSpent
                awarded  == ApplyMissionReward(reqs[r].p, m)
                levelled == UpdateLevel(awarded)
            IN
            /\ reqs' = [reqs EXCEPT
                    ![r].pc = "saveCompleted",
                    ![r].m = [m EXCEPT !.status = "completed"],
                    ![r].pBase = reqs[r].p,
                    ![r].p = levelled,
                    ![r].out = [Resp("submit", i, "MissionCompleted") EXCEPT
                        !.score = CalculateScore(m, completionTime,
                                      TotalHintsUsed(m), TotalAttempts(m)),
                        !.rewards = <<sr[1] + m.rewards.experience,
                                      sr[2] + m.rewards.skillPoints,
                                      sr[3] + m.rewards.currency>>,
                        !.newLevel = (CalculateLevel(awarded) > levelled.level - 1)]]
            /\ UNCHANGED res
       ELSE /\ reqs' = Respond(r, "StepCompleted")
            /\ res' = [Resp("submit", i, "StepCompleted") EXCEPT !.rewards = sr]
    /\ UNCHANGED <<mission, nOps, otherActive, clock, lastTimeSpent, genVars, sessionVars>>

\* `await req.player.save()` of the completion and of the failure branch
SavePlayerFinal(r) ==
    /\ reqs[r].pc \in {"savePlayerCompleted", "savePlayerFailed"}
    /\ player' = SavePlayerPaths(player, reqs[r].p, reqs[r].pBase)
    /\ IF reqs[r].pc = "savePlayerFailed"
       THEN /\ reqs' = Respond(r, "MissionFailed")
            /\ res' = [Resp("submit", reqs[r].stepId, "MissionFailed") EXCEPT
                         !.attemptsRemaining = 0]
       ELSE /\ reqs' = Respond(r, "MissionCompleted")
            /\ res' = reqs[r].out
    /\ UNCHANGED <<mission, nOps, otherActive, clock, lastTimeSpent, genVars, sessionVars>>

ConcNext ==
    \/ \E r \in Reqs, stepId \in StepIds, submitted \in ConcSubmissions,
          timeSpent \in ConcTimeSpents :
            Auth(r, stepId, submitted, timeSpent)
    \/ \E r \in Reqs : LoadMission(r)
    \/ \E r \in Reqs : SaveMissionStep(r)
    \/ \E r \in Reqs : SavePlayerStep(r)
    \/ \E r \in Reqs : SavePlayerFinal(r)

ConcSpec == ConcInit /\ [][ConcNext]_vars

----------------------------------------------------------------------------
(* Occupancy: start and room-join requests on a multiplayer mission         *)
(* interleave at their awaits; each works on the document it loaded.        *)

\* capacity test of the join route that lets everybody in
RoomIsFull_Never(m) == FALSE

\* `currentPlayers >= maxPlayers` of the join route (false for an undefined
\* maxPlayers)
RoomIsFull(m) ==
    /\ m.availability.maxPlayers # Unset
    /\ m.availability.currentPlayers >= m.availability.maxPlayers

\* a request that is not in flight
IdleSeat == [pc |-> "idle", op |-> "none", currentPlayers |-> 0]

\* maxPlayers of the missions considered
RoomSizes == {1, 2}

RoomInit ==
    /\ \E type \in {"cooperative", "competitive"}, size \in RoomSizes :
          mission = MissionDoc([type |-> type, prerequisites |-> NoPrerequisites,
                                availability |-> [AlwaysOpen EXCEPT !.maxPlayers = size]],
                               DefaultSettings)
    /\ player = FreshPlayer
    /\ otherActive \in {0, MaxMissionsPerPlayer - 1}
    /\ res = Resp("none", 0, "none")
    /\ nOps = 0
    /\ clock = 1
    /\ reqs = [r \in Reqs |-> IdleSeat]
    /\ lastTimeSpent = 0
    /\ GeneratorIdle
    /\ SessionIdle

\* POST /:id/start up to its countDocuments: Mission.findById resolves and
\* isAvailableFor tests the loaded document
LoadForStart(r) ==
    /\ reqs[r].pc = "idle"
    /\ nOps < MaxConcOps
    /\ nOps' = nOps + 1
    /\ LET availability == IsAvailableFor(mission, player, clock) IN
       IF ~availability.available
       THEN /\ res' = [Resp("start", 0, "NotAvailable") EXCEPT
                          !.reason = availability.reason]
            /\ UNCHANGED reqs
       ELSE /\ reqs' = [reqs EXCEPT ![r] =
                          [pc |-> "count", op |-> "start",
                           currentPlayers |-> mission.availability.currentPlayers]]
            /\ UNCHANGED res
    /\ UNCHANGED <<mission, player, otherActive, clock, lastTimeSpent, genVars, sessionVars>>

\* countDocuments resolves: the active-mission limit, then the step reset
\* and the increment on the loaded document
CountActive(r) ==
    /\ reqs[r].pc = "count"
    /\ IF ActiveMissions >= MaxMissionsPerPlayer
       THEN /\ res' = Resp("start", 0, "TooManyActive")
            /\ reqs' = [reqs EXCEPT ![r] = IdleSeat]
       ELSE /\ reqs' = [reqs EXCEPT ![r].pc = "save",
                                    ![r].currentPlayers =
                                        IF mission.type # "single_player"
                                        THEN @ + 1 ELSE @]
            /\ UNCHANGED res
    /\ UNCHANGED <<mission, player, nOps, otherActive, clock, lastTimeSpent, genVars, sessionVars>>

\* POST /rooms/:id/join up to its save
LoadForJoin(r) ==
    /\ reqs[r].pc = "idle"
    /\ nOps < MaxConcOps
    /\ nOps' = nOps + 1
    /\ IF RoomIsFull(mission)
       THEN /\ res' = Resp("join", 0, "RoomFull")
            /\ UNCHANGED reqs
       ELSE /\ reqs' = [reqs EXCEPT ![r] =
                          [pc |-> "save", op |-> "join",
                           currentPlayers |-> mission.availability.currentPlayers + 1]]
            /\ UNCHANGED res
    /\ UNCHANGED <<mission, player, otherActive, clock, lastTimeSpent, genVars, sessionVars>>

\* `await mission.save()` of either route: the modified paths are set to the
\* values of the loaded document
SaveOccupancy(r) ==
    /\ reqs[r].pc = "save"
    /\ LET counted == [mission EXCEPT
                          !.availability.currentPlayers = reqs[r].currentPlayers]
       IN  IF reqs[r].op = "join"
           THEN /\ mission' = counted
                /\ res' = Resp("join", 0, "Joined")
                /\ reqs' = [reqs EXCEPT ![r] = IdleSeat]
           ELSE /\ mission' = [counted EXCEPT !.steps = [i \in 1..Len(@) |->
                                   [@[i] EXCEPT !.startedAt = clock,
                                                !.completed = FALSE,
                                                !.attempts  = 0]]]
                /\ reqs' = [reqs EXCEPT ![r].pc = "savePlayer"]
                /\ UNCHANGED res
    /\ UNCHANGED <<player, nOps, otherActive, clock, lastTimeSpent, genVars, sessionVars>>

\* `await req.player.save()` of the start route, then its response
SaveStarter(r) ==
    /\ reqs[r].pc = "savePlayer"
    /\ player' = [player EXCEPT !.currentMission = TRUE]
    /\ res' = Resp("start", 0, "Started")
    /\ reqs' = [reqs EXCEPT ![r] = IdleSeat]
    /\ UNCHANGED <<mission, nOps, otherActive, clock, lastTimeSpent, genVars, sessionVars>>

RoomNext ==
    \/ \E r \in Reqs : LoadForStart(r)
    \/ \E r \in Reqs : CountActive(r)
    \/ \E r \in Reqs : LoadForJoin(r)
    \/ \E r \in Reqs : SaveOccupancy(r)
    \/ \E r \in Reqs : SaveStarter(r)

RoomSpec == RoomInit /\ [][RoomNext]_vars

----------------------------------------------------------------------------
(* Properties *)

\* a transition that handles one request of the sequential specification
Handled(op) == nOps' = nOps + 1 /\ res'.op = op

\* C1: a submit for a not yet completed step of a mission whose status is
\* not `active` is rejected with InvalidState and leaves the step's attempts
\* and completed flag, the mission status and the player record unchanged.
C1_SubmitInactiveRejected ==
    [][ (Handled("submit") /\ res'.step \in StepIds
            /\ mission.status # "active"
            /\ ~mission.steps[res'.step].completed)
        => /\ res'.kind = "InvalidState"
           /\ mission'.steps[res'.step].attempts = mission.steps[res'.step].attempts
           /\ mission'.steps[res'.step].completed = mission.steps[res'.step].completed
           /\ mission'.status = mission.status
           /\ player' = player ]_vars

\* C2: once the status is `completed` or `archived`, no request changes any
\* field of the mission instance.
C2_TerminalMissionFrozen ==
    [][ mission.status \in {"completed", "archived"} => mission' = mission ]_vars

\* C3: in every reachable state, a mission that is not `active` has
\* attempts <= settings.maxAttempts on every step.
C3_AttemptsCappedWhenInactive ==
    mission.status # "active"
        => \A i \in StepIds : mission.steps[i].attempts <= mission.settings.maxAttempts

\* C4: on an active mission every incorrect submission to a step counts one
\* attempt; the ones before the maxAttempts-th return IncorrectSolution and
\* leave the mission active, the maxAttempts-th returns MissionFailed with
\* attemptsRemaining = 0, completes the mission and zeroes streakCurrent.
C4_AttemptCap ==
    [][ (Handled("submit") /\ mission.status = "active"
            /\ res'.kind \in {"IncorrectSolution", "MissionFailed"})
        => LET i == res'.step
               n == mission.steps[i].attempts + 1
               cap == mission.settings.maxAttempts
           IN  /\ mission'.steps[i].attempts = n
               /\ n <= cap
               /\ n < cap => /\ res'.kind = "IncorrectSolution"
                             /\ res'.attemptsRemaining = cap - n
                             /\ mission'.status = "active"
                             /\ player' = player
               /\ n = cap => /\ res'.kind = "MissionFailed"
                             /\ res'.attemptsRemaining = 0
                             /\ mission'.status = "completed"
                             /\ player'.streakCurrent = 0
                             /\ player'.missionsFailed = player.missionsFailed + 1 ]_vars

\* C4 witness: the third incorrect submission failed a mission with
\* maxAttempts = 3 and reset a streak that was 2.
C4_Witness ==
    /\ res.kind = "MissionFailed"
    /\ mission.settings.maxAttempts = 3
    /\ \E i \in StepIds : mission.steps[i].attempts = 3
    /\ mission.status = "completed"
    /\ player.streakBest = 4 /\ player.streakCurrent = 0 /\ player.missionsFailed = 2

\* C5: a submit for a step that is already completed returns AlreadyCompleted
\* and changes neither the mission nor the player, whatever is submitted.
C5_CompletedStepIdempotent ==
    [][ (Handled("submit") /\ res'.step \in StepIds
            /\ mission.steps[res'.step].completed)
        => /\ res'.kind = "AlreadyCompleted"
           /\ mission' = mission
           /\ player' = player ]_vars

\* C5 witness: a completed step was submitted again.
C5_Witness ==
    /\ res.kind = "AlreadyCompleted" /\ res.op = "submit"
    /\ mission.steps[res.step].completed
    /\ mission.steps[res.step].attempts = 1

\* C6: on an active mission a correct submission completes the mission and
\* applies the mission-level rewards iff it completes the last incomplete
\* step; otherwise it applies the step reward only and the mission stays active.
C6_MissionRewardIffLastStep ==
    [][ (Handled("submit") /\ mission.status = "active"
            /\ res'.kind \in {"StepCompleted", "MissionCompleted"})
        => LET i    == res'.step
               d    == mission.steps[i].difficulty
               last == \A j \in StepIds : j = i \/ mission.steps[j].completed
           IN  /\ mission'.steps[i].completed
               /\ last <=> res'.kind = "MissionCompleted"
               /\ last <=> mission'.status = "completed"
               /\ ~last => mission'.status = "active"
               /\ player'.experience = player.experience + 10 * d
                        + (IF last THEN mission.rewards.experience ELSE 0)
               /\ player'.currency = player.currency + 5 * d
                        + (IF last THEN mission.rewards.currency ELSE 0)
               /\ player'.skillPoints - player.skillPoints - 2 * d
                        \in (IF last THEN {mission.rewards.skillPoints,
                                           mission.rewards.skillPoints + 5}
                             ELSE {0})
               /\ player'.missionsCompleted
                        = player.missionsCompleted + (IF last THEN 1 ELSE 0)
               /\ player'.streakCurrent
                        = player.streakCurrent + (IF last THEN 1 ELSE 0) ]_vars

\* C6 witness: the last step was completed and the mission rewards applied.
C6_Witness ==
    /\ res.kind = "MissionCompleted"
    /\ mission.status = "completed"
    /\ \A i \in StepIds : mission.steps[i].completed
    /\ player.missionsCompleted = 1 /\ player.experience = 330

\* C7: of two concurrent submissions carrying a correct solution for the same
\* step at most one observes the step as not completed (passes the
\* `step.completed` test), so that the step is rewarded at most once.
C7_AtMostOneObserver ==
    \A r1, r2 \in Reqs :
        (r1 # r2 /\ reqs[r1].stepId = reqs[r2].stepId
            /\ reqs[r1].isCorrect /\ reqs[r2].isCorrect
            /\ reqs[r1].pc \notin {"idle", "authed"}
            /\ reqs[r2].pc \notin {"idle", "authed"})
        => ~(reqs[r1].sawIncomplete /\ reqs[r2].sawIncomplete)

\* C8: a step is completed only after a start stamped its startedAt.
C8_CompletedOnlyAfterStart ==
    \A i \in StepIds : mission.steps[i].completed => mission.steps[i].startedAt # Unset

\* the eligibility conditions of start, as the contract lists them
Eligible ==
    /\ player.level >= mission.prerequisites.level
    /\ \A k \in 1..Len(mission.prerequisites.skills) :
          player.skills[mission.prerequisites.skills[k].skill]
              >= mission.prerequisites.skills[k].minLevel
    /\ mission.availability.startDate # Unset => clock >= mission.availability.startDate
    /\ mission.availability.endDate # Unset => clock <= mission.availability.endDate
    /\ mission.availability.maxPlayers # Unset
          => mission.availability.currentPlayers < mission.availability.maxPlayers

\* C9: start changes the mission or the player only when every eligibility
\* condition holds; otherwise it answers NotAvailable with a reason and
\* leaves both documents unchanged.
C9_StartOnlyWhenEligible ==
    [][ Handled("start")
        => /\ ~Eligible => /\ res'.kind = "NotAvailable"
                           /\ res'.reason # "none"
                           /\ mission' = mission
                           /\ player' = player
           /\ Eligible => res'.kind # "NotAvailable"
           /\ (mission' # mission \/ player' # player) => Eligible ]_vars

\* C9 witness: a start was refused because the mission was full, after an
\* earlier start had taken the only place.
C9_Witness ==
    /\ res.op = "start" /\ res.kind = "NotAvailable"
    /\ res.reason = "Mission is full"
    /\ mission.availability.currentPlayers = 1

\* C10: a successful start leaves every step not completed, with 0 attempts
\* and startedAt set, adds exactly 1 to currentPlayers unless the mission is
\* single_player, and changes nothing else of the mission nor the player's
\* experience, currency, skills and skill points.
C10_StartEffect ==
    [][ (Handled("start") /\ res'.kind = "Started")
        => /\ \A i \in StepIds :
                /\ ~mission'.steps[i].completed
                /\ mission'.steps[i].attempts = 0
                /\ mission'.steps[i].startedAt = clock
                /\ mission'.steps[i].startedAt # Unset
                /\ mission'.steps[i].hints = mission.steps[i].hints
                /\ mission'.steps[i].solution = mission.steps[i].solution
           /\ mission'.availability.currentPlayers
                = mission.availability.currentPlayers
                    + (IF mission.type = "single_player" THEN 0 ELSE 1)
           /\ mission'.status = mission.status
           /\ mission'.rewards = mission.rewards
           /\ mission'.settings = mission.settings
           /\ player'.experience = player.experience
           /\ player'.currency = player.currency
           /\ player'.skills = player.skills
           /\ player'.skillPoints = player.skillPoints ]_vars

\* C10 witness: a second start, at time 2, of a mission that counts its players.
C10_Witness ==
    /\ res.kind = "Started"
    /\ mission.type = "cooperative"
    /\ mission.availability.currentPlayers = 2
    /\ \A i \in StepIds : mission.steps[i].attempts = 0 /\ mission.steps[i].startedAt = 2

\* C11: with hints allowed, the k-th requestHint for a not completed step
\* with n hints returns hints[k-1] and adds 1 to the stored hintsUsed; once
\* hintsUsed = n it returns NoHintsRemaining; hintsUsed never exceeds n; the
\* request is rejected, hintsUsed unchanged, when hints are disallowed or the
\* step is completed.
C11_HintsInOrder ==
    [][ (Handled("hint") /\ res'.step \in StepIds)
        => LET i    == res'.step
               used == mission.steps[i].hintsUsed
               n    == Len(mission.steps[i].hints)
           IN  /\ mission'.steps[i].hintsUsed <= n
               /\ IF ~mission.settings.allowHints \/ mission.steps[i].completed
                  THEN /\ res'.kind \in {"HintsDisallowed", "AlreadyCompleted"}
                       /\ mission'.steps[i].hintsUsed = used
                  ELSE IF used < n
                  THEN /\ res'.kind = "Hint"
                       /\ res'.hint = mission.steps[i].hints[used + 1]
                       /\ mission'.steps[i].hintsUsed = used + 1
                  ELSE /\ res'.kind = "NoHintsRemaining"
                       /\ mission'.steps[i].hintsUsed = used ]_vars

\* C12: an IncorrectSolution response of a mission whose settings disallow
\* hints carries no hint text.
C12_NoHintWhenDisallowed ==
    (res.op = "submit" /\ res.kind = "IncorrectSolution" /\ ~mission.settings.allowHints)
        => res.hint = NoHint

\* C13: with hints allowed, the hint of an IncorrectSolution response is the
\* step's hint at index hintsUsed, and is not the hint the preceding response
\* (a requestHint or an IncorrectSolution for the same step) returned.
C13_IncorrectHintIsNextUnused ==
    [][ (Handled("submit") /\ res'.kind = "IncorrectSolution"
            /\ mission.settings.allowHints /\ res'.hint # NoHint)
        => LET i    == res'.step
               used == mission.steps[i].hintsUsed
           IN  /\ used < Len(mission.steps[i].hints)
               /\ res'.hint = mission.steps[i].hints[used + 1]
               /\ ~(res.op \in {"hint", "submit"} /\ res.step = i
                        /\ res.hint = res'.hint) ]_vars

\* C14: a mission of difficulty 5 and estimatedDuration 30 completed with no
\* hints, one attempt on each step and timeSpent = 1200 on the completing
\* submission scores 1680, whatever its number of steps.
C14_CleanRunScore ==
    (res.op = "submit" /\ res.kind = "MissionCompleted"
        /\ mission.difficulty = 5 /\ mission.estimatedDuration = 30
        /\ lastTimeSpent = 1200
        /\ \A i \in StepIds : mission.steps[i].attempts = 1
                                /\ mission.steps[i].hintsUsed = 0)
        => res.score = 1680

\* ten times the score before rounding, as the contract's formula gives it
TenfoldScore(difficulty, estimatedDuration, completionTime, hintsUsed, attempts) ==
    LET t == IF completionTime * 10 < 8 * estimatedDuration * 60 THEN 200
             ELSE IF completionTime * 10 > 15 * estimatedDuration * 60 THEN -100
             ELSE 0
    IN  (1000 + t - 50 * hintsUsed - 25 * (attempts - 1)) * (10 + (difficulty - 1))

\* C15: the score is >= 0 and is max(0, round(x)) for the x of the formula:
\* the integer nearest to x (halves rounded up) when that is >= 0, else 0.
C15_ScoreFormula ==
    res.op = "score"
        => LET x10 == TenfoldScore(mission.difficulty, mission.estimatedDuration,
                                   reqs.completionTime, reqs.hintsUsed, reqs.attempts)
           IN  /\ res.score >= 0
               /\ x10 >= -5 => (10 * res.score - 5 <= x10 /\ x10 < 10 * res.score + 5)
               /\ x10 < -5  => res.score = 0

\* C15 witness: a slow run with 30 hints and 40 attempts, floored at 0.
C15_Witness ==
    /\ res.op = "score" /\ res.score = 0
    /\ reqs.hintsUsed = 30 /\ reqs.attempts = 40
    /\ reqs.completionTime = 2701 /\ mission.difficulty = 10

\* C16: a correct submission to a not completed step of difficulty s that is
\* not the last one adds 10*s experience, 2*s skill points and 5*s currency,
\* raises the skill mapped to the step's type by floor(s/2) capped at 100,
\* and changes nothing else of the player.
C16_StepRewardExact ==
    [][ (Handled("submit") /\ res'.step \in StepIds
            /\ ~mission.steps[res'.step].completed
            /\ (\E j \in StepIds : j # res'.step /\ ~mission.steps[j].completed)
            /\ res'.kind \notin {"IncorrectSolution", "MissionFailed", "ServerError"})
        => LET i == res'.step
               s == mission.steps[i].difficulty
               k == SkillMap(mission.steps[i].type)
           IN  /\ res'.kind = "StepCompleted"
               /\ player'.experience = player.experience + 10 * s
               /\ player'.skillPoints = player.skillPoints + 2 * s
               /\ player'.currency = player.currency + 5 * s
               /\ player'.skills[k] = Min(100, player.skills[k] + s \div 2)
               /\ \A o \in Skills \ {k} : player'.skills[o] = player.skills[o]
               /\ player'.level = player.level
               /\ player'.streakCurrent = player.streakCurrent
               /\ player'.streakBest = player.streakBest
               /\ player'.missionsCompleted = player.missionsCompleted
               /\ player'.missionsFailed = player.missionsFailed
               /\ player'.currentMission = player.currentMission ]_vars

\* C16 witness: the exploit step of difficulty 5 was solved first, by a player
\* whose malwareDevelopment was 99: the nudge of 2 is capped at 100.
C16_Witness ==
    /\ res.kind = "StepCompleted" /\ res.step = 2
    /\ player.skills["malwareDevelopment"] = 100
    /\ player.skills["networkAnalysis"] = 99
    /\ player.experience = 550 /\ player.level = 3

\* C17: under submissions and skill upgrades every skill stays in 0..100.
C17_SkillsInRange ==
    \A s \in Skills : player.skills[s] >= 0 /\ player.skills[s] <= 100

\* C17 witness: an upgrade by 5 of a skill at 99 stopped at 100 and used 1 point.
C17_Witness ==
    /\ res.op = "upgrade" /\ res.kind = "Upgraded"
    /\ player.skills["networkAnalysis"] = 100
    /\ player.skillPoints = 6

\* C18: no start, submit or hint request decreases the player's experience
\* or currency.
C18_LedgerMonotone ==
    [][ /\ player'.experience >= player.experience
        /\ player'.currency >= player.currency ]_vars

\* C18 witness: a mission failed after one step had been rewarded; the step's
\* experience and currency are kept.
C18_Witness ==
    /\ res.kind = "MissionFailed"
    /\ player.experience = 30 /\ player.currency = 1015
    /\ player.missionsFailed = 1

\* floor(sqrt(experience / 100)) + 1, by its defining inequalities
LevelOf(experience) ==
    CHOOSE k \in 1..(experience \div 100 + 1) :
        (k - 1) * (k - 1) * 100 <= experience /\ experience < k * k * 100

\* C19: a completing submission recomputes the level on the experience that
\* includes the step and mission rewards; a higher result is stored with one
\* bonus of 5 skill points, otherwise level and bonus are left alone; 2500
\* experience gives level 6; no request lowers the stored level.
C19_LevelRecompute ==
    [][ /\ player'.level >= player.level
        /\ (Handled("submit") /\ res'.kind = "MissionCompleted")
            => LET s      == mission.steps[res'.step].difficulty
                   gained == player.experience + 10 * s + mission.rewards.experience
                   sp     == player.skillPoints + 2 * s + mission.rewards.skillPoints
               IN  /\ player'.experience = gained
                   /\ gained = 2500 => LevelOf(gained) = 6
                   /\ IF LevelOf(gained) > player.level
                      THEN /\ player'.level = LevelOf(gained)
                           /\ player'.skillPoints = sp + 5
                      ELSE /\ player'.level = player.level
                           /\ player'.skillPoints = sp ]_vars

\* C19 witness: completion took a level-3 player to 2500 experience, hence to
\* level 6, with a single bonus of 5.
C19_Witness ==
    /\ res.kind = "MissionCompleted"
    /\ player.experience = 2500 /\ player.level = 6
    /\ player.skillPoints = 40 + 6 + 10 + 27 + 5

\* the player an accepted submission for step i leaves, from the stored
\* mission and player alone
RewardedPlayer(m, p, i) ==
    LET paid == ApplyStepReward(p, m.steps[i])
    IN  IF \A j \in 1..Len(m.steps) : j = i \/ m.steps[j].completed
        THEN UpdateLevel(ApplyMissionReward(paid, m))
        ELSE paid

\* C20: any two accepted submissions for the same step from the same mission
\* and player state, whatever their solution content and timeSpent, leave the
\* same experience, skill points, currency, skills and level: each leaves
\* the values determined by the stored mission and player.
C20_RewardsNotSupplied ==
    [][ (Handled("submit") /\ res'.kind \in {"StepCompleted", "MissionCompleted"})
        => LET same == RewardedPlayer(mission, player, res'.step)
           IN  /\ player'.experience = same.experience
               /\ player'.skillPoints = same.skillPoints
               /\ player'.currency = same.currency
               /\ player'.skills = same.skills
               /\ player'.level = same.level ]_vars

\* C20 witness: a mission completed by a submission reporting 3000 seconds,
\* scored with the slow-completion penalty and rewarded like any other.
C20_Witness ==
    /\ res.kind = "MissionCompleted" /\ lastTimeSpent = 3000
    /\ res.score = 1225
    /\ player.experience = 330 /\ player.level = 2

\* C21: for every difficulty d in 1..10 and every category with a template,
\* the generated mission has min(d + 2, template steps) steps, at least one,
\* min(d, template targets) targets, and no AR puzzle iff d < 3, otherwise
\* min(2, floor(d / 3)); web_security at d = 1 gives 3 steps, 1 target and
\* no puzzle.
C21_BlueprintShape ==
    blueprint # NoBlueprint =>
        LET d        == blueprint.difficulty
            template == Templates(blueprint.category)
        IN  /\ blueprint.category \in Categories /\ d \in 1..10
            /\ Len(blueprint.steps) = Min(d + 2, Len(template.steps))
            /\ 1 <= Len(blueprint.steps)
            /\ Len(blueprint.targets) = Min(d, Len(template.targets))
            /\ (blueprint.arPuzzles = 0 <=> d < 3)
            /\ (d >= 3 => blueprint.arPuzzles = Min(2, d \div 3))
            /\ (blueprint.category = "web_security" /\ d = 1 =>
                    /\ Len(blueprint.steps) = 3
                    /\ Len(blueprint.targets) = 1
                    /\ blueprint.arPuzzles = 0)

C21_Witness ==
    /\ blueprint.category = "web_security" /\ blueprint.difficulty = 1
    /\ Len(blueprint.steps) = 3 /\ Len(blueprint.targets) = 1
    /\ blueprint.arPuzzles = 0

\* C22: a generate request whose category has no template (`tutorial` and
\* `mixed` included) fails with the unknown-category error before any part
\* of a mission is generated, and stores no mission.
C22_UnknownCategoryRejected ==
    [][ (Handled("generate") /\ reqs.category \notin Categories \cup {"absent"})
        => (/\ res'.kind = "ServerError"
            /\ res'.reason = "Unknown category"
            /\ UNCHANGED genVars) ]_vars

\* C23: every generated step has a type of the step-type enum of a stored
\* step, for every template category and every difficulty in 1..10.
C23_StepTypesInEnum ==
    \A i \in 1..Len(blueprint.steps) : blueprint.steps[i].type \in StepTypes

\* C24: after any number of generate calls the static vulnerability tables
\* hold the entries of the class initialiser in the same order.
C24_TablesImmutable ==
    vulnerabilities = VulnerabilityTables

\* C25: two generate calls with the same category, difficulty, player level
\* and generation seed return the same targets, step difficulties and
\* rewards.
C25_SameSeedSameBlueprint ==
    [][ (/\ Handled("generate")
         /\ blueprint # NoBlueprint /\ blueprint' # NoBlueprint
         /\ blueprint'.category = blueprint.category
         /\ blueprint'.difficulty = blueprint.difficulty
         /\ blueprint'.playerLevel = blueprint.playerLevel
         /\ blueprint'.generationSeed = blueprint.generationSeed)
        => (/\ blueprint'.targets = blueprint.targets
            /\ blueprint'.steps = blueprint.steps
            /\ blueprint'.rewards = blueprint.rewards) ]_vars

\* C26: the generated settings have allowHints true iff d <= 7, maxAttempts
\* 3 if d <= 5 and 2 otherwise, and timeLimit = estimatedDuration * 90 with
\* estimatedDuration = max(10, number of steps * (5 + 2 * d)).
C26_GeneratedSettings ==
    blueprint # NoBlueprint =>
        LET d == blueprint.difficulty
        IN  /\ (blueprint.settings.allowHints <=> d <= 7)
            /\ blueprint.settings.maxAttempts = (IF d <= 5 THEN 3 ELSE 2)
            /\ blueprint.estimatedDuration =
                   Max(10, Len(blueprint.steps) * (5 + 2 * d))
            /\ blueprint.settings.timeLimit = blueprint.estimatedDuration * 90

C26_Witness ==
    /\ blueprint.category = "network_penetration" /\ blueprint.difficulty = 7
    /\ blueprint.settings.allowHints
    /\ blueprint.settings.maxAttempts = 2
    /\ blueprint.estimatedDuration = 95
    /\ blueprint.settings.timeLimit = 8550

\* the same letter, whatever the case
SameLetter(a, b) == a % 10 = b % 10

\* t occurs in s when case is ignored
ContainsIgnoringCase(s, t) ==
    \E i \in 0..(Len(s) - Len(t)) : \A k \in 1..Len(t) : SameLetter(s[i + k], t[k])

\* C27: the matcher accepts a list iff some accepted command is a
\* case-insensitive substring of some submitted entry, accepts a string
\* against a descriptor with expectedOutput iff it contains expectedOutput
\* case-insensitively, rejects an empty or missing submission, and lets
\* Math.random decide for no submission of those shapes.
C27_MatcherDeterministic ==
    res.op = "validate" =>
        LET sub      == reqs.submitted
            sol      == reqs.solution
            accepted == res.kind = "Accepted"
            empty    == \/ sub.kind = "missing"
                        \/ (sub.kind = "string" /\ sub.text = <<>>)
                        \/ (sub.kind = "list" /\ sub.items = <<>>)
        IN  /\ sub.kind = "list" =>
                (accepted <=>
                    \E c \in 1..Len(sol.commands), j \in 1..Len(sub.items) :
                        ContainsIgnoringCase(sub.items[j], sol.commands[c]))
            /\ (sub.kind = "string" /\ sol.expectedOutput # <<>>) =>
                (accepted <=> (/\ sub.text # <<>>
                               /\ ContainsIgnoringCase(sub.text, sol.expectedOutput)))
            /\ empty => res.kind = "Rejected"
            /\ res.reason = "random" =>
                (/\ ~empty
                 /\ sub.kind # "list"
                 /\ ~(sub.kind = "string" /\ sol.expectedOutput # <<>>))

C27_Witness ==
    /\ res.kind = "Accepted" /\ res.reason = "matched"
    /\ reqs.submitted = [kind |-> "list", items |-> << <<1, 12>> >>]
    /\ reqs.solution.commands = << <<1, 2>> >>

\* C28: the newLevel flag of a MissionCompleted response is true iff the
\* stored level of the player rose with that submission.
C28_LevelUpFlag ==
    [][ (Handled("submit") /\ res'.kind = "MissionCompleted")
        => (res'.newLevel <=> player'.level > player.level) ]_vars

\* the mission was failed: closed with a step out of attempts
FailedByExhaustion(m) ==
    /\ m.status = "completed"
    /\ \E i \in 1..Len(m.steps) :
          ~m.steps[i].completed /\ m.steps[i].attempts >= EffectiveMaxAttempts(m)

\* C29: once a mission has failed by attempt exhaustion, no submit on it
\* grants a step or mission reward, counts it as completed or extends the
\* streak.
C29_NoRewardAfterFailure ==
    [][ (Handled("submit") /\ FailedByExhaustion(mission))
        => (/\ player'.missionsCompleted = player.missionsCompleted
            /\ player'.streakCurrent = player.streakCurrent
            /\ player'.experience = player.experience
            /\ player'.skillPoints = player.skillPoints
            /\ player'.currency = player.currency) ]_vars

\* C30: a step is rewarded at most once over start, submit and hint
\* requests: a submit is answered with a reward only for a step that was
\* never completed before.
C30_RewardedOnce ==
    [][ (Handled("submit") /\ res'.kind \in {"StepCompleted", "MissionCompleted"})
        => mission.steps[res'.step].completedAt = Unset ]_vars

\* C31: when concurrent correct submits complete the last open steps, the
\* mission ends with status `completed` (and the mission rewards applied
\* once): with no request in flight it never has every step completed while
\* its status is still `active`.
C31_CompletedWhenAllStepsDone ==
    ((\A r \in Reqs : reqs[r].pc \in {"idle", "done"}) /\ AllStepsCompleted(mission))
        => mission.status = "completed"

\* C32: for a multiplayer mission with maxPlayers set, the stored
\* currentPlayers never exceeds maxPlayers in any interleaving of start and
\* room-join requests.
C32_OccupancyBounded ==
    mission.availability.currentPlayers <= mission.availability.maxPlayers

\* C32 witness: two requests passed the capacity check on the same loaded
\* count, one has saved and filled the mission, the other is about to save.
C32_Witness ==
    /\ mission.availability.currentPlayers = mission.availability.maxPlayers
    /\ \E r \in Reqs : /\ reqs[r].pc = "save"
                       /\ reqs[r].currentPlayers = mission.availability.maxPlayers

\* C33: a submit request that finds the stored level equal to
\* floor(sqrt(experience / 100)) + 1 leaves it so, whatever its outcome.
C33_LevelMatchesExperience ==
    [][ (Handled("submit") /\ player.level = LevelOf(player.experience))
        => player'.level = LevelOf(player'.experience) ]_vars

\* C34: streakBest >= streakCurrent >= 0 after every request; streakCurrent
\* counts the missions completed since the last failed one (a completion adds
\* one, a failure resets it to zero, nothing else changes it); streakBest
\* never decreases.
C34_StreakCounts ==
    [][ /\ player'.streakBest >= player'.streakCurrent
        /\ player'.streakCurrent >= 0
        /\ player'.streakBest >= player.streakBest
        /\ player'.streakCurrent =
              (IF Handled("submit") /\ res'.kind = "MissionCompleted"
               THEN player.streakCurrent + 1
               ELSE IF Handled("submit") /\ res'.kind = "MissionFailed"
               THEN 0
               ELSE player.streakCurrent) ]_vars

\* C34 witness: a first completed mission took both streaks from 0 to 1.
C34_Witness ==
    /\ res.kind = "MissionCompleted"
    /\ player.missionsCompleted = 1
    /\ player.streakCurrent = 1 /\ player.streakBest = 1

InProgress ==
    IF mission.status = "active" /\ mission.steps[1].startedAt # Unset THEN 1 ELSE 0

WrongPassword == Handled("login") /\ res'.reason = "wrong password"

\* C37: the fifth consecutive failed password attempt on an unlocked account
\* locks it for the lock time; while the lock is in force every login is
\* answered as locked and changes nothing; a successful login resets the
\* counter; the first failure after an expired lock restarts the counter at
\* 1; the counter counts the failures since the last reset and a lock is
\* only set when it reaches 5.
C37_LoginLockout ==
    [][ /\ (WrongPassword /\ security.lockUntil = Unset
                /\ security.loginAttempts = MaxLoginAttempts - 1)
            => security'.lockUntil = clock' + LockTicks
        /\ (Handled("login") /\ res'.reason # "unknown login"
                /\ IsLocked(security, clock))
            => (res'.kind = "Locked" /\ security' = security)
        /\ (Handled("login") /\ res'.kind = "LoggedIn")
            => security' = [loginAttempts |-> 0, lockUntil |-> Unset]
        /\ (WrongPassword /\ security.lockUntil # Unset)
            => security' = [loginAttempts |-> 1, lockUntil |-> Unset]
        /\ (WrongPassword /\ security.lockUntil = Unset)
            => security'.loginAttempts = security.loginAttempts + 1
        /\ ~(WrongPassword \/ (Handled("login") /\ res'.kind = "LoggedIn"))
            => security' = security
        /\ security'.lockUntil # Unset
            => security'.loginAttempts >= MaxLoginAttempts ]_vars

\* C37 witness: five failures locked the account at clock 6 and a later
\* request was answered as locked.
C37_Witness ==
    /\ res.kind = "Locked"
    /\ security.loginAttempts = MaxLoginAttempts
    /\ security.lockUntil = 6 + LockTicks
    /\ nOps = 6

\* the tracked rooms whose players map holds player p
RoomsOf(rooms, p) == {r \in DOMAIN rooms : p \in DOMAIN rooms[r]}

\* the tracked rooms in which socket s is the socket of an entry
RoomsOfSocket(rooms, s) ==
    {r \in DOMAIN rooms : \E p \in DOMAIN rooms[r] : rooms[r][p] = s}

\* socket s disconnects in this step
Disconnects(s) == sockets[s].status = "connected" /\ sockets'[s].status = "closed"

\* C38 as stated: no tracked room is empty, every socket is in at most one
\* tracked room, and after a socket disconnects its player is in no tracked
\* room.
C38_RoomRegistry ==
    [][ /\ \A r \in DOMAIN gameRooms' : DOMAIN gameRooms'[r] # {}
        /\ \A s \in Sockets : Cardinality(RoomsOfSocket(gameRooms', s)) <= 1
        /\ \A s \in Sockets :
              Disconnects(s) => RoomsOf(gameRooms', PlayerOf(s)) = {} ]_vars

\* C38 amended: no tracked room is empty, every socket is in at most one
\* tracked room, and after a socket disconnects its player is not in the
\* room that socket had joined and is in a tracked room only where another
\* connected socket of the same player has joined it.
C38_RoomRegistryPerSocket ==
    [][ /\ \A r \in DOMAIN gameRooms' : DOMAIN gameRooms'[r] # {}
        /\ \A s \in Sockets : Cardinality(RoomsOfSocket(gameRooms', s)) <= 1
        /\ \A s \in Sockets :
              Disconnects(s) =>
                /\ sockets[s].currentRoom \notin RoomsOf(gameRooms', PlayerOf(s))
                /\ \A r \in RoomsOf(gameRooms', PlayerOf(s)) :
                      \E t \in Sockets \ {s} :
                          /\ PlayerOf(t) = PlayerOf(s)
                          /\ sockets'[t].status = "connected"
                          /\ sockets'[t].currentRoom = r ]_vars

\* C38 witness: the first socket of a player has disconnected from room 1
\* while the player is still tracked in room 2 through its second socket.
C38_Witness ==
    /\ sockets[1].status = "closed" /\ sockets[1].currentRoom = 1
    /\ sockets[2].status = "connected" /\ sockets[2].currentRoom = 2
    /\ DOMAIN gameRooms = {2}
    /\ gameRooms[2] = MapSet(<<>>, 1, 2)

\* C39: a player is in activeConnections exactly while one of its sockets is
\* connected, the entry is such a socket, and the player is a member of the
\* room each of its connected sockets has joined.
C39_RegisteredWhileConnected ==
    \A p \in PlayerIds :
        LET live == {s \in Sockets : PlayerOf(s) = p /\ sockets[s].status = "connected"}
        IN  /\ p \in DOMAIN activeConnections <=> live # {}
            /\ p \in DOMAIN activeConnections => activeConnections[p] \in live
            /\ \A s \in live :
                  sockets[s].currentRoom # 0
                      => sockets[s].currentRoom \in RoomsOf(gameRooms, p)

====
